---------------------------- MODULE Spec2Model ----------------------------
(***************************************************************************)
(* Model of the RPA content-intelligence engine of sidehustle-engine:      *)
(*   - the identity pool of RPAAntiDetection (proxy health tracking and    *)
(*     fingerprint rotation), backend/services/rpa_anti_detection.py;      *)
(*   - the crawl orchestrator RPAMultiPlatformCrawler and its platform     *)
(*     drivers, backend/services/rpa_multi_platform_crawler.py;            *)
(*   - the browser session of the crawler that the process-wide            *)
(*     RPAContentAnalyzer of backend/api/routes/topics.py shares among its *)
(*     invocations, backend/services/rpa_content_analyzer.py;              *)
(*   - topic extraction and scoring, of AdvancedContentAnalyzer            *)
(*     (backend/services/advanced_content_analyzer.py) and of              *)
(*     RPAContentAnalyzer, with its content gaps and follower estimates;   *)
(*   - the topic cache of IntelligentTopicService,                         *)
(*     backend/services/intelligent_topic_service.py;                      *)
(*   - the batch extraction of VideoContentExtractor,                      *)
(*     backend/services/video_content_extractor.py;                        *)
(*   - the behaviour simulator of RPAAntiDetection and the search box of   *)
(*     the Google driver, followed step by step.                           *)
(***************************************************************************)
EXTENDS Integers, Sequences, FiniteSets, TLC

(***************************************************************************)
(* Bounds of the model (not program constants).                            *)
(***************************************************************************)
\* success_count is unbounded in the code; this many calls of mark_proxy_success
\* are explored (over all proxies)
MaxSuccesses == 2
\* failure_count is unbounded in the code; mark_proxy_failure is explored up to
\* this count on each proxy
MaxFailures == 3
\* number of pool calls explored in the rotation specification
MaxRotationCalls == 5
\* number of result elements one results page yields at most
MaxItems == 1
\* number of search queries one invocation of analyze_market_trends_rpa is given
MaxQueries == 2
\* length of the content lists the analyzers are run on
MaxRecords == 4
\* platform_count and content_count up to which the score functions are called
MaxPlatformCount == 5
MaxContentCount == 21
\* length of the topic lists saved to the cache, and the limit a caller
\* passes at most
MaxTopics == 2
MaxLimit == 2
\* number of urls batch_extract_videos is given at most
MaxVideos == 4
\* length of the topic lists identify_content_gaps is called on
MaxGapTopics == 6
\* length of the boosted query typed into the search box, in characters
MaxQueryLength == 3

(***************************************************************************)
(* Program constants.                                                      *)
(***************************************************************************)
\* self.config['max_retries_per_proxy']
max_retries_per_proxy == 3
\* self.config['min_request_delay'] and self.config['max_request_delay']
min_request_delay == 2
max_request_delay == 8
\* self.delays['between_searches'] = (3, 7)
between_searches_min == 3
between_searches_max == 7

\* AdvancedContentAnalyzer: self.min_cross_platform_mentions, and the least
\* len(items) of _cross_platform_validation
min_cross_platform_mentions == 2
min_validated_items == 3
\* _calculate_growth_rate: timedelta(days=3), and the limits 5.0 and -1.0 of the
\* result in thousandths (the lower one as its distance below zero)
recent_days == 3
growth_rate_max == 5000
growth_rate_below_zero == 1000
\* _calculate_prediction_score: the caps of engagement, platform_count and
\* content_count, and the weights in hundredths
engagement_cap == 1000
platform_cap == 4
content_cap == 20
weight_engagement == 30
weight_growth == 25
weight_sentiment == 15
weight_platforms == 20
weight_content == 10
\* RPAContentAnalyzer: self.config['min_cross_platform_mentions'], the least
\* keyword frequency of _extract_trending_topics_rpa, and
\* self.config['min_content_quality_score'] in units of 1/10000
config_min_cross_platform_mentions == 2
min_keyword_frequency == 2
min_content_quality_score == 6000
\* IntelligentTopicService: self.cache_duration = timedelta(hours=6)
cache_duration == 6
\* batch_extract_videos: asyncio.Semaphore(3)
semaphore_limit == 3
\* identify_content_gaps: trending_topics[:10] and gaps[:5]
gap_topics == 10
gaps_returned == 5

\* the three ProxyConfig objects _load_proxy_list builds, in list order
Proxies == {"proxy1", "proxy2", "proxy3"}
InitialProxyPool == <<"proxy1", "proxy2", "proxy3">>
\* the four BrowserFingerprint objects of _initialize_fingerprints
Fingerprints == {"win_chrome", "mac_chrome", "linux_chrome", "win_firefox"}
\* response times a caller may report (seconds, as whole numbers)
Latencies == {1, 2}
None == "None"

VARIABLES
    \* ---- RPAAntiDetection ----
    proxy_pool,                 \* self.proxy_pool: the list of proxies, in list order
    success_count,              \* ProxyConfig.success_count, per proxy
    failure_count,              \* ProxyConfig.failure_count, per proxy
    last_used,                  \* ProxyConfig.last_used, per proxy: 0 is None, else the rank
                                \* of the datetime.now() reading among those still stored
    response_time,              \* ProxyConfig.response_time, per proxy
    is_active,                  \* ProxyConfig.is_active, per proxy
    current_proxy_index,        \* self.current_proxy_index
    fingerprint_pool,           \* self.fingerprint_pool, after random.shuffle
    current_fingerprint_index,  \* self.current_fingerprint_index
    last_call,                  \* the last pool call: its name, argument and return value
    fp_returned,                \* the fingerprints the last calls of get_next_fingerprint returned
    calls,                      \* number of pool calls made (rotation specification only)
    \* ---- RPAMultiPlatformCrawler.search_all_platforms_rpa ----
    pc,                         \* where the call is: idle, loop, await, sleep, done, raised
    platform_index,             \* position of the for loop in platforms (1-based)
    all_content,                \* the list all_content
    driver,                     \* per platform, where its driver coroutine is:
                                \* idle, new_page, try, close, returned, raised
    subreddit_index,            \* position of search_reddit_rpa's loop in subreddits
    results,                    \* per platform, the driver's list results
    slept,                      \* per platform, the delay slept after its run (0: none)
    logged,                     \* what the try: block of search_google_rpa logged last:
                                \* none, error, blocked, no_results, found
    \* ---- rpa_analyzer.analyze_market_trends_rpa and the crawler's session ----
    inv_pc,                     \* per invocation, where it is: idle, launch, new_context,
                                \* loop, page, cleanup, returned, raised, cancelled
    inv_query,                  \* per invocation, position of the loop over search_queries
    inv_platform,               \* per invocation, position of the loop over platforms
    inv_cancelled,              \* per invocation, whether CancelledError is propagating
    crawler_browser,            \* self.rpa_crawler.browser: None, or the browser named
                                \* after the invocation whose call launched it
    crawler_context,            \* self.rpa_crawler.context, named the same way
    launched,                   \* the browsers chromium.launch has started
    closed_by,                  \* per browser, the invocation whose cleanup closed it
    page_on,                    \* per invocation, the session its open page belongs to
    used,                       \* the pages opened so far: by which invocation, for
                                \* which platform, on which session
    \* ---- topic extraction and scoring ----
    content_items,              \* the list of records an analysis is run on
    clock,                      \* datetime.now(), in whole days
    analysis,                   \* the last run: the analyzer, how it ended, the topic
                                \* candidates it built and the list it returned
    previous,                   \* the same of the run before it
    score_call,                 \* the last direct call of a score function and its result
    \* ---- IntelligentTopicService ----
    cache_file,                 \* the file at self.cache_file
    cache_now,                  \* datetime.now(), in whole hours
    cache_call,                 \* the last call on the service: what it read and returned
    cache_saved,                \* what this service saved last, while the file still holds it
    \* ---- VideoContentExtractor.batch_extract_videos ----
    batch_pc,                   \* position of batch_extract_videos
    video_count,                \* len(video_urls)
    task_pc,                    \* per task of the batch, its position or its result
    semaphore,                  \* the value of the semaphore
    max_in_flight,              \* the most extractions in flight at once so far
    \* ---- RPAContentAnalyzer: content gaps and influencers ----
    gap_call,                   \* a call of identify_content_gaps: argument and result
    follower_call,              \* two calls of _estimate_follower_count and their results
    \* ---- the behaviour simulator ----
    sim_pc,                     \* position of the call of simulate_human_behavior_*
    sim_kind,                   \* which of the two functions is called
    sim_slept,                  \* the waits the call has slept, in milliseconds (0: none)
    sim_failed,                 \* whether the call logged a warning
    \* ---- search_google_rpa: the search box ----
    box_pc,                     \* position of the driver between goto and Enter
    page_selectors,             \* the search selectors that have an element on the page
    query_length,               \* len(search_query)
    search_box,                 \* the selector that located search_box, or None
    typed_into,                 \* the selector of the element typed into, or None
    typed                       \* the number of characters typed

poolVars == <<proxy_pool, success_count, failure_count, last_used, response_time,
              is_active, current_proxy_index>>
fpVars == <<fingerprint_pool, current_fingerprint_index, fp_returned>>
vars == <<proxy_pool, success_count, failure_count, last_used, response_time,
          is_active, current_proxy_index, fingerprint_pool,
          current_fingerprint_index, last_call, fp_returned, calls,
          pc, platform_index, all_content, driver, subreddit_index, results, slept,
          logged,
          inv_pc, inv_query, inv_platform, inv_cancelled, crawler_browser,
          crawler_context, launched, closed_by, page_on, used,
          content_items, clock, analysis, previous, score_call,
          cache_file, cache_now, cache_call, cache_saved,
          batch_pc, video_count, task_pc, semaphore, max_in_flight,
          gap_call, follower_call,
          sim_pc, sim_kind, sim_slept, sim_failed,
          box_pc, page_selectors, query_length, search_box, typed_into, typed>>
antiDetectionVars == <<proxy_pool, success_count, failure_count, last_used, response_time,
                       is_active, current_proxy_index, fingerprint_pool,
                       current_fingerprint_index, last_call, fp_returned, calls>>
crawlVars == <<pc, platform_index, all_content, driver, subreddit_index, results, slept,
              logged>>
sessionVars == <<inv_pc, inv_query, inv_platform, inv_cancelled, crawler_browser,
                crawler_context, launched, closed_by, page_on, used>>
scoringVars == <<content_items, clock, analysis, previous, score_call>>
cacheVars == <<cache_file, cache_now, cache_call, cache_saved>>
\* the state of the services besides the RPA engine
batchVars == <<batch_pc, video_count, task_pc, semaphore, max_in_flight>>
insightVars == <<gap_call, follower_call>>
simVars == <<sim_pc, sim_kind, sim_slept, sim_failed>>
boxVars == <<box_pc, page_selectors, query_length, search_box, typed_into, typed>>
serviceVars == <<cacheVars, batchVars, insightVars, simVars, boxVars>>
engineVars == <<antiDetectionVars, crawlVars, sessionVars, scoringVars>>

(***************************************************************************)
(* Helpers.                                                                *)
(***************************************************************************)
Range(s) == {s[i] : i \in DOMAIN s}

Max(a, b) == IF a >= b THEN a ELSE b

SetMax(S) == CHOOSE x \in S : \A y \in S : y <= x

SetMin(S) == CHOOSE x \in S : \A y \in S : x <= y

Min(a, b) == IF a <= b THEN a ELSE b

\* sum(...) of a list of numbers
RECURSIVE SumSeq(_)
SumSeq(s) == IF s = <<>> THEN 0 ELSE s[1] + SumSeq(Tail(s))

\* round(): a / b (b > 0) to the nearest integer, halves to the even one
RoundHalfEven(a, b) ==
    LET q == a \div b
        r == a % b
    IN  IF 2 * r > b THEN q + 1
        ELSE IF 2 * r = b THEN q + (q % 2)
        ELSE q

\* the elements of new that s lacks, appended to s in their order: the order
\* of the keys of a dict filled in that order
RECURSIVE AppendNew(_, _)
AppendNew(s, new) ==
    IF new = <<>> THEN s
    ELSE AppendNew(IF new[1] \in Range(s) THEN s ELSE Append(s, new[1]), Tail(new))

RECURSIVE SumOver(_, _)
SumOver(S, f) ==
    IF S = {} THEN 0
    ELSE LET x == CHOOSE y \in S : TRUE IN f[x] + SumOver(S \ {x}, f)

PermutationsOf(S) ==
    {s \in [1..Cardinality(S) -> S] : \A i, j \in DOMAIN s : s[i] = s[j] => i = j}

\* tuple comparison of two keys <<a, b>>
KeyLess(k1, k2) == k1[1] < k2[1] \/ (k1[1] = k2[1] /\ k1[2] < k2[2])

\* list.sort(key=...) is stable: x goes behind every element whose key is not greater
RECURSIVE InsertByKey(_, _, _)
InsertByKey(x, sorted, key) ==
    IF sorted = <<>> THEN <<x>>
    ELSE IF KeyLess(key[x], key[sorted[1]]) THEN <<x>> \o sorted
    ELSE <<sorted[1]>> \o InsertByKey(x, Tail(sorted), key)

RECURSIVE StableSort(_, _)
StableSort(s, key) ==
    IF s = <<>> THEN <<>>
    ELSE InsertByKey(s[Len(s)], StableSort(SubSeq(s, 1, Len(s) - 1), key), key)

(***************************************************************************)
(* RPAAntiDetection: the proxy pool.                                       *)
(***************************************************************************)
\* datetime.now(): later than every reading stored so far
Now == 1 + SetMax({last_used[p] : p \in Proxies})

\* the stored readings renumbered 1, 2, ... in their order (0 stays None)
Ranked(lu) ==
    [p \in Proxies |->
        IF lu[p] = 0 THEN 0
        ELSE Cardinality({q \in Proxies : lu[q] # 0 /\ lu[q] <= lu[p]})]

\* [p for p in self.proxy_pool if p.is_active]
ActiveProxies == SelectSeq(proxy_pool, LAMBDA p : is_active[p])

\* the reset loop of get_next_proxy leaves is_active = True ...
ResetIsActive == [p \in Proxies |-> TRUE]

ResetFailureCountKeeping == failure_count
\* ... and failure_count = 0 on every proxy of the pool
ResetFailureCount == [p \in Proxies |-> 0]

\* active_proxies.sort(key=lambda x: (x.failure_count, x.success_count))
SortedByUse(s, fc) ==
    StableSort(s, [p \in Proxies |-> <<fc[p], success_count[p]>>])

\* (self.current_proxy_index + 1) % len(active_proxies)
NextProxyIndex(n) == (current_proxy_index + 1) % n

CandidatesUnfiltered == proxy_pool
\* the list get_next_proxy picks from, before it is sorted
Candidates == IF ActiveProxies = <<>> THEN proxy_pool ELSE ActiveProxies

GetNextProxy ==
    LET reset == ActiveProxies = <<>>
        fc == IF reset THEN ResetFailureCount ELSE failure_count
        sorted == SortedByUse(Candidates, fc)
        idx == NextProxyIndex(Len(sorted))
    IN  /\ proxy_pool # <<>>
        /\ is_active' = IF reset THEN ResetIsActive ELSE is_active
        /\ failure_count' = fc
        \* with no active proxy, active_proxies is self.proxy_pool itself: sorted in place
        /\ proxy_pool' = IF reset THEN sorted ELSE proxy_pool
        /\ current_proxy_index' = idx
        /\ last_call' = [op |-> "get_next_proxy", who |-> sorted[idx + 1],
                         arg |-> 0, reset |-> reset]
        /\ UNCHANGED <<success_count, last_used, response_time>>
        /\ UNCHANGED fpVars

FailureCountAfterSuccessUnfloored(fc) == fc - 1
\* if proxy.failure_count > 0: proxy.failure_count = max(0, proxy.failure_count - 1)
FailureCountAfterSuccess(fc) == IF fc > 0 THEN Max(0, fc - 1) ELSE fc

IsActiveAfterSuccessReactivating(p, fc) == fc < max_retries_per_proxy
\* mark_proxy_success does not assign is_active
IsActiveAfterSuccess(p, fc) == is_active[p]

MarkProxySuccess(p, latency) ==
    /\ SumOver(Proxies, success_count) < MaxSuccesses
    /\ success_count' = [success_count EXCEPT ![p] = @ + 1]
    /\ last_used' = Ranked([last_used EXCEPT ![p] = Now])
    /\ response_time' = [response_time EXCEPT ![p] = latency]
    /\ failure_count' = [failure_count EXCEPT ![p] = FailureCountAfterSuccess(@)]
    /\ is_active' = [is_active EXCEPT
                        ![p] = IsActiveAfterSuccess(p, failure_count'[p])]
    /\ last_call' = [op |-> "mark_proxy_success", who |-> p,
                     arg |-> latency, reset |-> FALSE]
    /\ UNCHANGED <<proxy_pool, current_proxy_index>>
    /\ UNCHANGED fpVars

TooManyFailuresStrict(fc) == fc > max_retries_per_proxy
\* if proxy.failure_count >= self.config['max_retries_per_proxy']
TooManyFailures(fc) == fc >= max_retries_per_proxy

MarkProxyFailure(p) ==
    /\ failure_count[p] < MaxFailures
    /\ failure_count' = [failure_count EXCEPT ![p] = @ + 1]
    /\ last_used' = Ranked([last_used EXCEPT ![p] = Now])
    /\ is_active' = [is_active EXCEPT
                        ![p] = IF TooManyFailures(failure_count'[p]) THEN FALSE ELSE @]
    /\ last_call' = [op |-> "mark_proxy_failure", who |-> p,
                     arg |-> 0, reset |-> FALSE]
    /\ UNCHANGED <<proxy_pool, success_count, response_time, current_proxy_index>>
    /\ UNCHANGED fpVars

(***************************************************************************)
(* RPAAntiDetection: fingerprint rotation.                                 *)
(***************************************************************************)
NextFingerprintIndexSkipping == (current_fingerprint_index + 2) % Len(fingerprint_pool)
\* (self.current_fingerprint_index + 1) % len(self.fingerprint_pool)
NextFingerprintIndex == (current_fingerprint_index + 1) % Len(fingerprint_pool)

\* the last len(fingerprint_pool) return values, oldest first
Remember(fp) ==
    LET all == Append(fp_returned, fp)
    IN  IF Len(all) > Len(fingerprint_pool) THEN Tail(all) ELSE all

GetNextFingerprint ==
    /\ current_fingerprint_index' = NextFingerprintIndex
    /\ last_call' = [op |-> "get_next_fingerprint",
                     who |-> fingerprint_pool[current_fingerprint_index' + 1],
                     arg |-> 0, reset |-> FALSE]
    /\ fp_returned' = Remember(last_call'.who)
    /\ UNCHANGED fingerprint_pool
    /\ UNCHANGED poolVars

(***************************************************************************)
(* RPAMultiPlatformCrawler: the platform drivers.                          *)
(*                                                                         *)
(* A driver is a coroutine of its own: its steps are enabled by its own    *)
(* position, and search_all_platforms_rpa awaits it.                       *)
(***************************************************************************)
\* platforms = ['google', 'reddit']
platforms == <<"google", "reddit">>
Platforms == Range(platforms)
\* subreddits = ['entrepreneur', 'sidehustle', 'passive_income']
subreddits == <<"entrepreneur", "sidehustle", "passive_income">>

\* _calculate_google_confidence, in units of 1/10000 rounded down:
\* 0.7 + 0.1 is 0.7999999999999999 in floating point, 0.7 + 0.15 is 0.85
GoogleConfidence(keyword, long_snippet) ==
    IF keyword /\ long_snippet THEN 9500
    ELSE IF keyword THEN 8500
    ELSE IF long_snippet THEN 7999
    ELSE 7000

\* _calculate_reddit_confidence, in the same units: 0.65 + 0.15 is 0.8
RedditConfidence(keyword) == IF keyword THEN 8000 ELSE 6500

\* a value of an engagement_metrics dict: an int, or a str
Number(n) == [type |-> "int", number |-> n, text |-> ""]
Text(t) == [type |-> "str", number |-> 0, text |-> t]

\* RPAContentItem(platform='google', ...) for the i-th result element of a
\* page of MaxItems: engagement_metrics={'ranking': len(search_results) - i}
GoogleItem(i, keyword, long_snippet) ==
    [platform |-> "google", source |-> "google", position |-> i,
     engagement_metrics |-> [ranking |-> Number(MaxItems - (i - 1))],
     confidence_score |-> GoogleConfidence(keyword, long_snippet)]

\* RPAContentItem(platform='reddit', ...) for the i-th post of a subreddit
RedditItem(sub, i, keyword) ==
    [platform |-> "reddit", source |-> sub, position |-> i,
     engagement_metrics |->
        [subreddit |-> Text(sub), position |-> Number(i), platform_score |-> Number(60)],
     confidence_score |-> RedditConfidence(keyword)]

\* the lists of items a results page of google can yield: one item per result
\* element that parses, in page order
RECURSIVE GoogleExtractions(_)
GoogleExtractions(n) ==
    IF n = 0 THEN {<<>>}
    ELSE LET shorter == GoogleExtractions(n - 1)
         IN  shorter \cup
             {Append(s, GoogleItem(n, k, l)) :
                s \in {t \in shorter : Len(t) = n - 1}, k \in BOOLEAN, l \in BOOLEAN}

\* the same for the posts of one subreddit page
RECURSIVE RedditExtractions(_, _)
RedditExtractions(sub, n) ==
    IF n = 0 THEN {<<>>}
    ELSE LET shorter == RedditExtractions(sub, n - 1)
         IN  shorter \cup
             {Append(s, RedditItem(sub, n, k)) :
                s \in {t \in shorter : Len(t) = n - 1}, k \in BOOLEAN}

\* page = await self.context.new_page(), before the try: statement
NewPage(p) ==
    /\ driver[p] = "new_page"
    /\ \/ driver' = [driver EXCEPT ![p] = "try"]
       \/ driver' = [driver EXCEPT ![p] = "raised"]
    /\ UNCHANGED <<pc, platform_index, all_content, subreddit_index, results, slept, logged>>

\* search_google_rpa, the try: block
GoogleTry ==
    /\ driver["google"] = "try"
    /\ driver' = [driver EXCEPT !["google"] = "close"]
    /\ \/ \* an exception before the extraction loop (goto, search box, typing):
          \* except Exception logs it
          /\ results' = results
          /\ logged' = "error"
       \/ \* no result element, and the page content holds 'captcha' or 'blocked':
          \* a warning, then return []
          /\ results' = [results EXCEPT !["google"] = <<>>]
          /\ logged' = "blocked"
       \/ \* no result element on any other page: another warning, then return []
          /\ results' = [results EXCEPT !["google"] = <<>>]
          /\ logged' = "no_results"
       \/ \* result elements found: results.append(item) for each that parses
          /\ \E found \in GoogleExtractions(MaxItems) :
                results' = [results EXCEPT !["google"] = found]
          /\ logged' = "found"
    /\ UNCHANGED <<pc, platform_index, all_content, subreddit_index, slept>>

\* search_reddit_rpa, the try: block of one subreddit
RedditTry ==
    /\ driver["reddit"] = "try"
    /\ driver' = [driver EXCEPT !["reddit"] = "close"]
    /\ \/ \* an exception (goto timeout): except Exception logs it
          results' = results
       \/ \* posts found (none: continue): results.append(item) for each that parses
          \E found \in RedditExtractions(subreddits[subreddit_index], MaxItems) :
              results' = [results EXCEPT !["reddit"] = @ \o found]
    /\ UNCHANGED <<pc, platform_index, all_content, subreddit_index, slept, logged>>

\* finally: await page.close(), then return results
GoogleClose ==
    /\ driver["google"] = "close"
    /\ \/ driver' = [driver EXCEPT !["google"] = "returned"]
       \/ driver' = [driver EXCEPT !["google"] = "raised"]
    /\ UNCHANGED <<pc, platform_index, all_content, subreddit_index, results, slept, logged>>

\* finally: await page.close(), the sleep between subreddits, then the next
\* subreddit or return results
RedditClose ==
    /\ driver["reddit"] = "close"
    /\ \/ /\ subreddit_index < Len(subreddits)
          /\ subreddit_index' = subreddit_index + 1
          /\ driver' = [driver EXCEPT !["reddit"] = "new_page"]
       \/ /\ subreddit_index = Len(subreddits)
          /\ driver' = [driver EXCEPT !["reddit"] = "returned"]
          /\ UNCHANGED subreddit_index
       \/ /\ driver' = [driver EXCEPT !["reddit"] = "raised"]
          /\ UNCHANGED subreddit_index
    /\ UNCHANGED <<pc, platform_index, all_content, results, slept, logged>>

(***************************************************************************)
(* RPAMultiPlatformCrawler.search_all_platforms_rpa.                       *)
(***************************************************************************)
\* random.uniform(*self.delays['between_searches']), in whole seconds
BetweenSearchesDelays == between_searches_min..between_searches_max

\* all_content.sort(key=lambda x: x.confidence_score, reverse=True)
SortedByConfidence(s) ==
    StableSort(s, [x \in Range(s) |-> <<0 - x.confidence_score, 0>>])

AwaitedWithoutWaiting(p) == TRUE
\* results = await self.search_..._rpa(...): resumed once the driver has finished
Awaited(p) == driver[p] \in {"returned", "raised"}

OnPlatformFailureReraising == "raised"
\* except Exception as e: ... continue
OnPlatformFailure == "loop"

\* all_content.extend(results)
Extended(content, new) == content \o new

\* the call: all_content = [], and the for loop is entered
SearchAllPlatformsRpa ==
    /\ pc = "idle"
    /\ pc' = "loop"
    /\ all_content' = <<>>
    /\ platform_index' = 1
    /\ UNCHANGED <<driver, subreddit_index, results, slept, logged>>

\* for platform in platforms: the driver of the platform is called
StartDriver ==
    /\ pc = "loop"
    /\ platform_index <= Len(platforms)
    /\ driver' = [driver EXCEPT ![platforms[platform_index]] = "new_page"]
    /\ pc' = "await"
    /\ UNCHANGED <<platform_index, all_content, subreddit_index, results, slept, logged>>

\* the driver returned: all_content.extend(results), then the delay is drawn
DriverReturned ==
    LET p == platforms[platform_index]
    IN  /\ pc = "await"
        /\ Awaited(p)
        /\ driver[p] # "raised"
        /\ all_content' = Extended(all_content, results[p])
        /\ pc' = "sleep"
        /\ UNCHANGED <<platform_index, driver, subreddit_index, results, slept, logged>>

\* await asyncio.sleep(delay), then the next platform
Sleep ==
    /\ pc = "sleep"
    /\ \E delay \in BetweenSearchesDelays :
          slept' = [slept EXCEPT ![platforms[platform_index]] = delay]
    /\ platform_index' = platform_index + 1
    /\ pc' = "loop"
    /\ UNCHANGED <<all_content, driver, subreddit_index, results, logged>>

\* the driver raised: the except clause, then the next platform
DriverRaised ==
    LET p == platforms[platform_index]
    IN  /\ pc = "await"
        /\ Awaited(p)
        /\ driver[p] = "raised"
        /\ pc' = OnPlatformFailure
        /\ platform_index' = platform_index + 1
        /\ UNCHANGED <<all_content, driver, subreddit_index, results, slept, logged>>

\* after the loop: the sort, and return all_content
Return ==
    /\ pc = "loop"
    /\ platform_index > Len(platforms)
    /\ all_content' = SortedByConfidence(all_content)
    /\ pc' = "done"
    /\ UNCHANGED <<platform_index, driver, subreddit_index, results, slept, logged>>

(***************************************************************************)
(* RPAContentAnalyzer.analyze_market_trends_rpa on the process-wide        *)
(* rpa_analyzer: the browser session of its one rpa_crawler.               *)
(*                                                                         *)
(* Every invocation is a coroutine of its own; its steps are the awaits    *)
(* at which the event loop may run the other invocation. A browser is      *)
(* named after the invocation whose create_stealth_browser_playwright call *)
(* launched it, and a context after its browser.                           *)
(***************************************************************************)
\* the requests to the RPA endpoints that may overlap, each one invocation
Invocations == {"request1", "request2"}

\* the positions in which an invocation has left `async with self.rpa_crawler`
Terminal == {"returned", "raised", "cancelled"}

\* async with self.rpa_crawler: __aenter__, initialize_browser,
\* create_stealth_browser_playwright up to `await async_playwright().start()`
AEnter(i) ==
    /\ inv_pc[i] = "idle"
    /\ GetNextFingerprint
    /\ \/ inv_pc' = [inv_pc EXCEPT ![i] = "launch"]
       \/ \* start() raised: initialize_browser re-raises, out of the async with
          inv_pc' = [inv_pc EXCEPT ![i] = "raised"]
    /\ UNCHANGED <<inv_query, inv_platform, inv_cancelled, crawler_browser,
                   crawler_context, launched, closed_by, page_on, used>>

\* browser = await playwright.chromium.launch(**launch_options)
Launch(i) ==
    /\ inv_pc[i] = "launch"
    /\ \/ /\ launched' = launched \cup {i}
          /\ inv_pc' = [inv_pc EXCEPT ![i] = "new_context"]
       \/ /\ inv_pc' = [inv_pc EXCEPT ![i] = "raised"]
          /\ UNCHANGED launched
    /\ UNCHANGED <<inv_query, inv_platform, inv_cancelled, crawler_browser,
                   crawler_context, closed_by, page_on, used>>

\* context = await browser.new_context(...); await context.add_init_script(...);
\* return browser, context; self.browser, self.context = ...
NewContext(i) ==
    /\ inv_pc[i] = "new_context"
    /\ \/ /\ crawler_browser' = i
          /\ crawler_context' = i
          /\ inv_pc' = [inv_pc EXCEPT ![i] = "loop"]
          /\ UNCHANGED inv_cancelled
       \/ \* one of the two awaits raised: nothing closes the local browser,
          \* initialize_browser re-raises and __aexit__ is not run
          /\ inv_pc' = [inv_pc EXCEPT ![i] = "raised"]
          /\ UNCHANGED <<crawler_browser, crawler_context, inv_cancelled>>
       \/ \* the task was cancelled at one of the two awaits: the same way out
          /\ inv_pc' = [inv_pc EXCEPT ![i] = "cancelled"]
          /\ inv_cancelled' = [inv_cancelled EXCEPT ![i] = TRUE]
          /\ UNCHANGED <<crawler_browser, crawler_context>>
    /\ UNCHANGED <<inv_query, inv_platform, launched, closed_by, page_on, used>>

\* a platform driver starts: page = await self.context.new_page()
OpenPage(i) ==
    /\ inv_pc[i] = "loop"
    /\ inv_platform[i] <= Len(platforms)
    /\ \/ \* a page on whatever self.context is now
          /\ closed_by[crawler_context] = None
          /\ page_on' = [page_on EXCEPT ![i] = crawler_context]
          /\ used' = used \cup {[by |-> i, platform |-> platforms[inv_platform[i]],
                                 session |-> crawler_context]}
          /\ inv_pc' = [inv_pc EXCEPT ![i] = "page"]
          /\ UNCHANGED inv_platform
       \/ \* new_page raised (always so on a closed browser): the except clause
          \* of search_all_platforms_rpa, then the next platform
          /\ inv_platform' = [inv_platform EXCEPT ![i] = @ + 1]
          /\ UNCHANGED <<page_on, used, inv_pc>>
    /\ UNCHANGED <<inv_query, inv_cancelled, crawler_browser, crawler_context,
                   launched, closed_by>>

\* the driver's try: block on its page (page.goto and what follows), then
\* finally: await page.close()
Navigate(i) ==
    /\ inv_pc[i] = "page"
    /\ page_on' = [page_on EXCEPT ![i] = None]
    /\ \/ \* the driver returned its results, or logged an exception and
          \* returned: the delay, then the next platform
          /\ inv_platform' = [inv_platform EXCEPT ![i] = @ + 1]
          /\ inv_pc' = [inv_pc EXCEPT ![i] = "loop"]
          /\ UNCHANGED inv_cancelled
       \/ \* the task was cancelled during the navigation: no `except Exception`
          \* catches CancelledError, it leaves the async with through __aexit__
          /\ inv_cancelled' = [inv_cancelled EXCEPT ![i] = TRUE]
          /\ inv_pc' = [inv_pc EXCEPT ![i] = "cleanup"]
          /\ UNCHANGED inv_platform
    /\ UNCHANGED <<inv_query, crawler_browser, crawler_context, launched,
                   closed_by, used>>

\* search_all_platforms_rpa returned: all_content.extend(content_items), the
\* delay, then the next query, or the end of the async with block
NextQuery(i) ==
    /\ inv_pc[i] = "loop"
    /\ inv_platform[i] > Len(platforms)
    /\ \/ /\ inv_query[i] < MaxQueries
          /\ inv_query' = [inv_query EXCEPT ![i] = @ + 1]
          /\ inv_platform' = [inv_platform EXCEPT ![i] = 1]
          /\ UNCHANGED inv_pc
       \/ /\ inv_query[i] = MaxQueries
          /\ inv_pc' = [inv_pc EXCEPT ![i] = "cleanup"]
          /\ UNCHANGED <<inv_query, inv_platform>>
    /\ UNCHANGED <<inv_cancelled, crawler_browser, crawler_context, launched,
                   closed_by, page_on, used>>

\* __aexit__: cleanup_browser: if self.browser: await self.browser.close()
\* (self.browser and self.context keep their values)
CleanupBrowser(i) ==
    /\ inv_pc[i] = "cleanup"
    /\ closed_by' = IF crawler_browser = None THEN closed_by
                    ELSE [closed_by EXCEPT ![crawler_browser] =
                                IF @ = None THEN i ELSE @]
    /\ inv_pc' = [inv_pc EXCEPT ![i] = IF inv_cancelled[i] THEN "cancelled"
                                       ELSE "returned"]
    /\ UNCHANGED <<inv_query, inv_platform, inv_cancelled, crawler_browser,
                   crawler_context, launched, page_on, used>>

(***************************************************************************)
(* Topic extraction and scoring: the records.                              *)
(*                                                                         *)
(* Floating-point values are whole numbers of a fixed unit: growth rates,  *)
(* sentiments and the confidence of an RPA topic in thousandths, the       *)
(* confidence of a record in units of 1/10000, the weighted engagement of  *)
(* an advanced topic in tenths, a prediction score in hundredths of a      *)
(* point.                                                                  *)
(***************************************************************************)
\* the platforms a record can come from: the drivers search_google_rpa,
\* search_reddit_rpa and search_youtube_rpa
RecordPlatforms == {"google", "reddit", "youtube"}

\* the words of more than three letters, none a stop word, that a text may
\* repeat; Vocabulary lists them in the order in which a text first has them
Words == {"hustle", "income"}
Vocabulary == <<"hustle", "income">>

\* base_score of _calculate_google_confidence, _calculate_reddit_confidence
\* and _calculate_youtube_confidence
BaseConfidence(platform) ==
    IF platform = "google" THEN 7000
    ELSE IF platform = "reddit" THEN 6500
    ELSE 6000

\* A record. time is the day of publish_time (ContentItem) or scraped_at
\* (RPAContentItem); engagement is engagement_score, or the numbers among
\* engagement_metrics.values() added up; polarity is the sentiment of title and
\* content; keywords are the words of Words that title and content hold three
\* times (no other word recurs in the texts of one platform).
Record(platform, time, engagement, polarity, keywords) ==
    [platform |-> platform, time |-> time, engagement |-> engagement,
     polarity |-> polarity, confidence_score |-> BaseConfidence(platform),
     keywords |-> keywords]

\* the days on which records were published or scraped, and the later days on
\* which analyses are run: a record of day 0 is older than recent_days on both
\* run days, one of day 1 on the second run day only, one of day 2 on neither
PublishDays == {0, 1}
RunDays == {3, 4}

\* the lists of at most n elements of R
ListsOver(R, n) == UNION {[1..m -> R] : m \in 0..n}

\* records of google and youtube that differ in their keywords only
KeywordRecords ==
    {Record(p, 2, 40, 0, k) :
        p \in {"google", "youtube"}, k \in (SUBSET Words) \ {{}}}

\* records of all platforms that differ in platform and polarity only
PlatformRecords ==
    {Record(p, 2, 40, s, {"hustle"}) :
        p \in RecordPlatforms, s \in {0 - 1000, 1000}}

\* lists alternating between google and youtube whose records differ in
\* time and engagement only
TimedLists ==
    {[i \in DOMAIN f |->
        Record(IF i % 2 = 1 THEN "google" ELSE "youtube", f[i][1], f[i][2], 0, {"hustle"})] :
        f \in ListsOver(PublishDays \X {0, 40, 2000}, MaxRecords)}

\* the content lists the analyzers are run on
ContentInputs ==
    ListsOver(KeywordRecords, MaxRecords) \cup ListsOver(PlatformRecords, MaxRecords)
        \cup TimedLists

\* set(item.platform for item in items)
PlatformsOf(items) == {items[i].platform : i \in DOMAIN items}

(***************************************************************************)
(* AdvancedContentAnalyzer.                                                *)
(***************************************************************************)
\* _extract_keywords_advanced(text) of one item: the high-frequency words
\* (noun phrases, which the tagger of TextBlob would add, are left out)
ItemKeywords(item) == SelectSeq(Vocabulary, LAMBDA w : w \in item.keywords)

\* _extract_topics_from_content: the keys of topics_data, in the order in
\* which the loop creates them ...
RECURSIVE TopicsDataKeys(_)
TopicsDataKeys(items) ==
    IF items = <<>> THEN <<>>
    ELSE AppendNew(TopicsDataKeys(SubSeq(items, 1, Len(items) - 1)),
                   ItemKeywords(items[Len(items)]))

\* ... and topics_data[keyword]
TopicsData(keyword, items) == SelectSeq(items, LAMBDA r : keyword \in r.keywords)

\* _cross_platform_validation: the condition under which a topic is kept
CrossPlatformValidation(items) ==
    /\ Cardinality(PlatformsOf(items)) >= min_cross_platform_mentions
    /\ Len(items) >= min_validated_items

\* self.engagement_weights, in tenths
engagement_weights ==
    [p \in RecordPlatforms |->
        IF p = "google" THEN 12 ELSE IF p = "youtube" THEN 15 ELSE 13]

\* sum(item.engagement_score for item in items)
EngagementScores(items) == SumSeq([i \in DOMAIN items |-> items[i].engagement])

\* _calculate_growth_rate at datetime.now() = now
CalculateGrowthRate(items, now) ==
    LET recent_items == SelectSeq(items, LAMBDA r : r.time > now - recent_days)
        older_items == SelectSeq(items, LAMBDA r : r.time <= now - recent_days)
        recent_engagement == EngagementScores(recent_items)
        older_engagement == EngagementScores(older_items)
    IN  IF older_items = <<>> THEN 1000
        ELSE IF older_engagement = 0 THEN 1000
        ELSE Min(Max(((recent_engagement - older_engagement) * 1000) \div older_engagement,
                     0 - growth_rate_below_zero),
                 growth_rate_max)

\* _analyze_topic_sentiment: np.mean of the polarities
AnalyzeTopicSentiment(items) ==
    IF items = <<>> THEN 0
    ELSE SumSeq([i \in DOMAIN items |-> items[i].polarity]) \div Len(items)

NormalizedEngagementUncapped(engagement) == engagement
\* normalized_engagement = min(engagement / 1000, 1.0), in units of
\* 1 / (10 * engagement_cap)
NormalizedEngagement(engagement) == Min(engagement, 10 * engagement_cap)

\* _calculate_prediction_score: engagement in tenths, growth_rate and
\* sentiment in thousandths; the result in hundredths of a point
CalculatePredictionScore(engagement, growth_rate, sentiment, platform_count, content_count) ==
    LET normalized_growth == Min(Max(growth_rate + 1000, 0), 2000)
        normalized_sentiment == sentiment + 1000
        normalized_platforms == Min(platform_count, platform_cap)
        normalized_content == Min(content_count, content_cap)
        \* score * 100, in millionths of a point
        score ==
            NormalizedEngagement(engagement)
                    * ((weight_engagement * 1000000) \div (10 * engagement_cap))
              + normalized_growth * ((weight_growth * 1000000) \div 2000)
              + normalized_sentiment * ((weight_sentiment * 1000000) \div 2000)
              + normalized_platforms * ((weight_platforms * 1000000) \div platform_cap)
              + normalized_content * ((weight_content * 1000000) \div content_cap)
    IN  RoundHalfEven(score, 10000)

\* _analyze_single_topic: the TrendingTopic of a validated topic
AnalyzeSingleTopic(topic_name, items, now) ==
    LET total_engagement ==
            SumSeq([i \in DOMAIN items |->
                        items[i].engagement * engagement_weights[items[i].platform]])
        growth_rate == CalculateGrowthRate(items, now)
    IN  [topic |-> topic_name,
         platforms |-> PlatformsOf(items),
         records |-> Len(items),
         growth_rate |-> growth_rate,
         prediction_score |->
            CalculatePredictionScore(total_engagement, growth_rate,
                                     AnalyzeTopicSentiment(items),
                                     Cardinality(PlatformsOf(items)), Len(items))]

\* the score a list of topics is sorted by: prediction_score, or
\* confidence_score for the topics of the RPA analyzer
ScoreOf(topic) ==
    IF "prediction_score" \in DOMAIN topic THEN topic.prediction_score
    ELSE topic.confidence_score

Unsorted(topics) == topics
\* trending_topics.sort(key=lambda x: x.prediction_score, reverse=True), and
\* final_topics.sort(key=lambda x: x.confidence_score, reverse=True)
SortedByScore(topics) ==
    StableSort(topics, [t \in Range(topics) |-> <<0 - ScoreOf(t), 0>>])

\* the topic candidates: per keyword, the platforms and the number of its records
CandidatesOf(data) ==
    [k \in DOMAIN data |->
        [platforms |-> PlatformsOf(data[k]), records |-> Len(data[k])]]

\* analyze_market_trends from the extraction of topics on, at datetime.now() = now
AdvancedTopics(items, now) ==
    LET keys == TopicsDataKeys(items)
        validated ==
            SelectSeq(keys, LAMBDA k : CrossPlatformValidation(TopicsData(k, items)))
    IN  SortedByScore([i \in DOMAIN validated |->
                          AnalyzeSingleTopic(validated[i], TopicsData(validated[i], items), now)])

(***************************************************************************)
(* RPAContentAnalyzer.                                                     *)
(***************************************************************************)
\* high_quality_content: the items of confidence_score >= min_content_quality_score
HighQualityContent(items) ==
    SelectSeq(items, LAMBDA r : r.confidence_score >= min_content_quality_score)

\* platform_content: its keys in the order of their creation, and its lists
PlatformContentKeys(items) ==
    AppendNew(<<>>, [i \in DOMAIN items |-> items[i].platform])

PlatformContent(platform, items) == SelectSeq(items, LAMBDA r : r.platform = platform)

\* _extract_keywords_advanced(platform_text) of RPAContentAnalyzer: the words
\* that occur more than twice in the texts of the platform, the most frequent
\* first (two- and three-word phrases are left out)
PlatformKeywords(platform_items) ==
    LET count == [w \in Words |->
                    3 * Cardinality({i \in DOMAIN platform_items :
                                        w \in platform_items[i].keywords})]
        frequent == SelectSeq(Vocabulary, LAMBDA w : count[w] > 2)
    IN  StableSort(frequent, [w \in Words |-> <<0 - count[w], 0>>])

\* all_keywords: the keywords of every platform, platform after platform
RECURSIVE AllKeywords(_, _)
AllKeywords(platform_keys, items) ==
    IF platform_keys = <<>> THEN <<>>
    ELSE PlatformKeywords(PlatformContent(platform_keys[1], items))
            \o AllKeywords(Tail(platform_keys), items)

\* topic_data[keyword]: every item of every platform whose text yields the keyword
RECURSIVE TopicData(_, _, _)
TopicData(keyword, platform_keys, items) ==
    IF platform_keys = <<>> THEN <<>>
    ELSE LET platform_items == PlatformContent(platform_keys[1], items)
         IN  (IF keyword \in Range(PlatformKeywords(platform_items))
              THEN platform_items ELSE <<>>)
                \o TopicData(keyword, Tail(platform_keys), items)

\* keyword_frequency[keyword]
KeywordFrequency(keyword, all_keywords) ==
    Cardinality({i \in DOMAIN all_keywords : all_keywords[i] = keyword})

\* keyword_frequency.most_common(50): the keywords by falling frequency, equal
\* ones in the order of their first occurrence
MostCommon(all_keywords) ==
    LET keys == AppendNew(<<>>, all_keywords)
    IN  StableSort(keys, [k \in Range(keys) |->
                            <<0 - KeywordFrequency(k, all_keywords), 0>>])

\* search_reddit_rpa puts the name of the subreddit, a str, among
\* engagement_metrics.values(): sum() of them raises TypeError
NonNumericMetrics(item) == item.platform = "reddit"

\* sum([sum(item.engagement_metrics.values()) for item in items]), for items
\* none of which raises
TotalEngagement(items) == SumSeq([i \in DOMAIN items |-> items[i].engagement])

\* sorted(content_items, key=lambda x: x.scraped_at)
SortedByScrapedAt(items) ==
    StableSort(items, [r \in Range(items) |-> <<r.time, 0>>])

\* _calculate_growth_indicators(...)['growth_rate']: with the sums S1, S2 of
\* the n1 early and n2 late items, (S2/n2 - S1/n1) / max(S1/n1, 1) is
\* (S2 * n1 - S1 * n2) / (n2 * max(S1, n1)); round(growth_rate, 3)
CalculateGrowthIndicators(items) ==
    LET sorted_items == SortedByScrapedAt(items)
        n == Len(sorted_items)
        n1 == n \div 2
        n2 == n - n1
        early == TotalEngagement(SubSeq(sorted_items, 1, n1))
        late == TotalEngagement(SubSeq(sorted_items, n1 + 1, n))
    IN  IF n < 2 THEN 0
        ELSE RoundHalfEven(1000 * (late * n1 - early * n2), n2 * Max(early, n1))

\* _analyze_sentiment_rpa: the mean of the sentiments of the items, round(..., 3)
AnalyzeSentimentRpa(items) ==
    IF items = <<>> THEN 0
    ELSE RoundHalfEven(SumSeq([i \in DOMAIN items |-> items[i].polarity]), Len(items))

\* _calculate_topic_confidence, computed in millionths:
\* round(min(base_score, 1.0), 3) in thousandths
CalculateTopicConfidence(platform_count, content_count, quality_sum, total_engagement) ==
    LET platform_bonus == Min(platform_count * 100000, 300000)
        content_bonus == Min(content_count * 20000, 200000)
        \* (avg_quality - 0.5) * 0.4, avg_quality being quality_sum / content_count
        quality_bonus == ((quality_sum - 5000 * content_count) * 40) \div content_count
        engagement_bonus == Min(total_engagement * 1000, 200000)
        base_score == 500000 + platform_bonus + content_bonus + quality_bonus
                        + engagement_bonus
    IN  RoundHalfEven(Min(base_score, 1000000), 1000)

\* _calculate_enhanced_confidence, the same way
CalculateEnhancedConfidence(base_confidence, growth_rate, sentiment_score, related_count) ==
    LET growth_bonus == growth_rate * 100
        sentiment_bonus == Max(sentiment_score * 50, 0)
        richness_bonus == Min(related_count * 10000, 100000)
        final_confidence == base_confidence * 1000 + growth_bonus + sentiment_bonus
                                + richness_bonus
    IN  RoundHalfEven(Min(final_confidence, 1000000), 1000)

\* the RPATrendingTopic of a keyword, after _enhance_topic_analysis. A keyword
\* is one word here, so related_keywords is empty and no item counts as related.
RpaTopic(keyword, items) ==
    LET growth_rate == CalculateGrowthIndicators(items)
        sentiment_score == AnalyzeSentimentRpa(items)
        confidence_score ==
            CalculateTopicConfidence(
                Cardinality(PlatformsOf(items)), Len(items),
                SumSeq([i \in DOMAIN items |-> items[i].confidence_score]),
                TotalEngagement(items))
    IN  [topic |-> keyword,
         platforms |-> PlatformsOf(items),
         records |-> Len(items),
         growth_rate |-> growth_rate,
         content_samples |-> SubSeq(items, 1, Min(5, Len(items))),
         confidence_score |->
            CalculateEnhancedConfidence(confidence_score, growth_rate, sentiment_score, 0)]

\* _extract_trending_topics_rpa: the keywords for which a topic is built
TrendingKeywords(all_keywords, platform_keys, items) ==
    SelectSeq(MostCommon(all_keywords),
        LAMBDA k :
            /\ KeywordFrequency(k, all_keywords) >= min_keyword_frequency
            /\ Cardinality(PlatformsOf(TopicData(k, platform_keys, items)))
                    >= config_min_cross_platform_mentions)

\* _cross_platform_validation_rpa: the condition under which a topic is kept
CrossPlatformValidationRpa(topic) ==
    /\ Cardinality(topic.platforms) >= config_min_cross_platform_mentions
    /\ SumSeq([i \in DOMAIN topic.content_samples |->
                    topic.content_samples[i].confidence_score])
            >= min_content_quality_score * Len(topic.content_samples)

\* analyze_market_trends_rpa from the quality filter on: whether it raises
\* TypeError, the engagement of a topic being built not adding up ...
RpaRaises(crawled) ==
    LET items == HighQualityContent(crawled)
        platform_keys == PlatformContentKeys(items)
        all_keywords == AllKeywords(platform_keys, items)
        trending == TrendingKeywords(all_keywords, platform_keys, items)
    IN  \E i \in DOMAIN trending :
            \E r \in Range(TopicData(trending[i], platform_keys, items)) :
                NonNumericMetrics(r)

\* ... and the list it returns when it does not
RpaTopics(crawled) ==
    LET items == HighQualityContent(crawled)
        platform_keys == PlatformContentKeys(items)
        all_keywords == AllKeywords(platform_keys, items)
        trending == TrendingKeywords(all_keywords, platform_keys, items)
        data(k) == TopicData(k, platform_keys, items)
        topics == [i \in DOMAIN trending |-> RpaTopic(trending[i], data(trending[i]))]
    IN  SortedByScore(SelectSeq(topics, CrossPlatformValidationRpa))

\* the topic candidates of the RPA analyzer: the keys of topic_data
RpaCandidates(crawled) ==
    LET items == HighQualityContent(crawled)
        platform_keys == PlatformContentKeys(items)
    IN  CandidatesOf([k \in Range(AllKeywords(platform_keys, items)) |->
                        TopicData(k, platform_keys, items)])

(***************************************************************************)
(* Runs of the analyzers, and direct calls of the score functions.         *)
(***************************************************************************)
\* no run yet, and no call yet
NoRun == [path |-> "none", outcome |-> "none", at |-> 0,
          candidates |-> [k \in {} |-> 0], topics |-> <<>>]
\* the result of a call that has not returned yet (no score is negative)
Pending == 0 - 1
NoCall == [function |-> "none", args |-> <<>>, result |-> Pending]

\* AdvancedContentAnalyzer.analyze_market_trends on content_items, from
\* _extract_topics_from_content on
AnalyzeMarketTrends ==
    /\ analysis' =
            [path |-> "advanced", outcome |-> "returned", at |-> clock,
             candidates |-> CandidatesOf([k \in Range(TopicsDataKeys(content_items)) |->
                                            TopicsData(k, content_items)]),
             topics |-> AdvancedTopics(content_items, clock)]
    /\ previous' = analysis
    /\ UNCHANGED <<content_items, clock, score_call>>

\* RPAContentAnalyzer.analyze_market_trends_rpa on content_items, from the
\* quality filter on
AnalyzeMarketTrendsRpa ==
    LET raises == RpaRaises(content_items)
    IN  /\ analysis' =
                [path |-> "rpa",
                 outcome |-> IF raises THEN "raised" ELSE "returned",
                 at |-> clock,
                 candidates |-> RpaCandidates(content_items),
                 topics |-> IF raises THEN <<>> ELSE RpaTopics(content_items)]
        /\ previous' = analysis
        /\ UNCHANGED <<content_items, clock, score_call>>

\* time passes between two runs
Tick ==
    /\ \E day \in RunDays : day > clock /\ clock' = day
    /\ UNCHANGED <<content_items, analysis, previous, score_call>>

\* the values _analyze_single_topic can pass to _calculate_prediction_score:
\* a weighted engagement from 0 on (in tenths), a growth rate of
\* _calculate_growth_rate, a mean polarity
EngagementInputs == {0, 5000, 10 * engagement_cap, 20 * engagement_cap}
GrowthRateInputs == {0 - growth_rate_below_zero, 0, 1000, growth_rate_max}
SentimentInputs == {0 - 1000, 0, 1000}

PredictionScoreInputs ==
    EngagementInputs \X GrowthRateInputs \X SentimentInputs
        \X (1..MaxPlatformCount) \X (1..MaxContentCount)

\* a call of _calculate_prediction_score(*args)
CallCalculatePredictionScore ==
    /\ score_call.function = "_calculate_prediction_score"
    /\ score_call.result = Pending
    /\ score_call' =
            [score_call EXCEPT
                !.result = CalculatePredictionScore(score_call.args[1], score_call.args[2],
                               score_call.args[3], score_call.args[4], score_call.args[5])]
    /\ UNCHANGED <<content_items, clock, analysis, previous>>

\* the values _extract_trending_topics_rpa and _enhance_topic_analysis can pass
\* to the confidence functions: two platforms or more, records of a
\* confidence_score from min_content_quality_score to 1, an engagement from 0
\* on, a growth rate from -1 on, a sentiment, a number of related items
EnhancedConfidenceInputs ==
    (config_min_cross_platform_mentions..MaxPlatformCount)
        \X (config_min_cross_platform_mentions..MaxContentCount)
        \X {min_content_quality_score, 10000}
        \X {0, 2 * engagement_cap}
        \X (GrowthRateInputs \cup {100000})
        \X SentimentInputs
        \X {0, MaxContentCount}

\* a call of _calculate_topic_confidence and, on the topic that has its
\* result as confidence_score, of _calculate_enhanced_confidence
CallCalculateEnhancedConfidence ==
    /\ score_call.function = "_calculate_enhanced_confidence"
    /\ score_call.result = Pending
    /\ score_call' =
            [score_call EXCEPT
                !.result =
                    CalculateEnhancedConfidence(
                        CalculateTopicConfidence(score_call.args[1], score_call.args[2],
                            score_call.args[3] * score_call.args[2], score_call.args[4]),
                        score_call.args[5], score_call.args[6], score_call.args[7])]
    /\ UNCHANGED <<content_items, clock, analysis, previous>>

(***************************************************************************)
(* IntelligentTopicService: the topic cache.                               *)
(***************************************************************************)
\* the article URLs a caller may pass
Urls == {"url_a", "url_b"}

\* TopicCategory: the members and their values (the values are Chinese
\* strings in the source; each is written here as the member's name in lower
\* case)
TopicCategoryValue ==
    [AI_TOOLS |-> "ai_tools", E_COMMERCE |-> "e_commerce",
     CONTENT_CREATION |-> "content_creation",
     SKILL_MONETIZATION |-> "skill_monetization",
     INVESTMENT |-> "investment", FREELANCE |-> "freelance"]
TopicCategory == DOMAIN TopicCategoryValue

\* the Topic that _generate_topics_from_analysis builds from the article at
\* url: id is len(topics) + 1 of an empty list, source_url the article's url
ArticleTopic(url) ==
    [id |-> 1,
     title |-> IF url = "url_a" THEN "title_a" ELSE "title_b",
     reason |-> "reason",
     category |-> IF url = "url_a" THEN "AI_TOOLS" ELSE "FREELANCE",
     heat |-> IF url = "url_a" THEN 60 ELSE 80,
     keywords |-> <<"keyword">>,
     source_url |-> url]

\* a Topic built without source_url (its default is None)
TopicWithoutSource ==
    [id |-> 2, title |-> "title_c", reason |-> "reason", category |-> "INVESTMENT",
     heat |-> 70, keywords |-> <<>>, source_url |-> None]

\* the Topic objects the lists passed to _save_cache are taken from
Topics == {ArticleTopic("url_a"), TopicWithoutSource}

\* topic.dict() as json.dump writes it: the category, a str-valued member of
\* an Enum, is written as its value
TopicDict(topic) == [topic EXCEPT !.category = TopicCategoryValue[topic.category]]

\* Topic(**topic_data) raises unless the category is the value of a member
Deserializes(topic_data) ==
    \E c \in TopicCategory : TopicCategoryValue[c] = topic_data.category

\* Topic(**topic_data)
TopicFromDict(topic_data) ==
    [topic_data EXCEPT
        !.category = CHOOSE c \in TopicCategory :
                        TopicCategoryValue[c] = topic_data.category]

\* a record of a cache file that no Topic can be rebuilt from
BadTopicData == [TopicDict(ArticleTopic("url_b")) EXCEPT !.category = "other"]

\* datetime.now() - cache_time > self.cache_duration, in whole hours
ExpiredAtDuration(now, cache_time) == now - cache_time >= cache_duration
Expired(now, cache_time) == now - cache_time > cache_duration

\* no file at self.cache_file
NoFile == [exists |-> FALSE, json |-> FALSE, timestamp |-> 0, topics |-> <<>>]

\* the file _save_cache writes at datetime.now() = now
SavedFile(topics, now) ==
    [exists |-> TRUE, json |-> TRUE, timestamp |-> now,
     topics |-> [i \in DOMAIN topics |-> TopicDict(topics[i])]]

\* the file a write that raised part-way leaves: open(..., 'w') has truncated it
TruncatedFile == [exists |-> TRUE, json |-> FALSE, timestamp |-> 0, topics |-> <<>>]

\* the files another writer may have left at self.cache_file before the
\* service runs: none, one that json.load rejects, one with its own records
ForeignFiles ==
    {NoFile, TruncatedFile}
        \cup {[exists |-> TRUE, json |-> TRUE, timestamp |-> 0, topics |-> t] :
                t \in ListsOver({TopicDict(ArticleTopic("url_a")), BadTopicData}, MaxTopics)}

\* the return value of _load_cache: hit is FALSE for None
CacheMiss == [hit |-> FALSE, topics |-> <<>>]

\* _load_cache at datetime.now() = now
LoadCache(file, now) ==
    IF ~file.exists THEN CacheMiss
    ELSE IF ~file.json THEN CacheMiss
    ELSE IF Expired(now, file.timestamp) THEN CacheMiss
    ELSE [hit |-> TRUE,
          topics |-> LET kept == SelectSeq(file.topics, Deserializes)
                     IN  [i \in DOMAIN kept |-> TopicFromDict(kept[i])]]

\* nothing saved by this service is in the file
NothingSaved == [valid |-> FALSE, topics |-> <<>>, urls |-> <<>>]
\* whether some record of the file fails to deserialize
HasBadRecord(file) == \E i \in DOMAIN file.topics : ~Deserializes(file.topics[i])

\* a call: when it was made, the timestamp of the file it read and whether
\* that file had a record failing to deserialize, what the service had saved,
\* the arguments, whether the result came from the cache, the result
NoCacheCall ==
    [op |-> "none", at |-> 0, timestamp |-> 0, bad_record |-> FALSE,
     saved |-> NothingSaved, urls |-> <<>>, limit |-> 0, from_cache |-> FALSE,
     result |-> CacheMiss]

\* _save_cache(topics), called for the list computed from urls: the file is
\* written, or open() raises and the file stays, or the write raises part-way;
\* the exception is logged and swallowed
SaveCache(topics, urls) ==
    \/ /\ cache_file' = SavedFile(topics, cache_now)
       /\ cache_saved' = [valid |-> TRUE, topics |-> topics, urls |-> urls]
    \/ /\ UNCHANGED <<cache_file, cache_saved>>
    \/ /\ cache_file' = TruncatedFile
       /\ cache_saved' = NothingSaved

\* a call of _save_cache(topics)
CallSaveCache ==
    /\ \E topics \in ListsOver(Topics, MaxTopics) : SaveCache(topics, <<>>)
    /\ cache_call' = [NoCacheCall EXCEPT !.op = "_save_cache", !.at = cache_now]
    /\ UNCHANGED cache_now

\* a call of _load_cache()
CallLoadCache ==
    /\ cache_call' =
            [NoCacheCall EXCEPT
                !.op = "_load_cache", !.at = cache_now,
                !.timestamp = cache_file.timestamp,
                !.bad_record = HasBadRecord(cache_file),
                !.saved = cache_saved, !.result = LoadCache(cache_file, cache_now)]
    /\ UNCHANGED <<cache_file, cache_now, cache_saved>>

\* the lists of distinct urls a caller may pass
UrlLists == {s \in ListsOver(Urls, Cardinality(Urls)) : \A i, j \in DOMAIN s : s[i] = s[j] => i = j}

\* _deduplicate_topics: the first topic of every title[:20].lower()
RECURSIVE DeduplicateTopics(_)
DeduplicateTopics(topics) ==
    IF topics = <<>> THEN <<>>
    ELSE LET before == DeduplicateTopics(SubSeq(topics, 1, Len(topics) - 1))
             last == topics[Len(topics)]
         IN  IF \E i \in DOMAIN before : before[i].title = last.title THEN before
             ELSE Append(before, last)

\* sorted(unique_topics, key=lambda x: x.heat, reverse=True)
SortedByHeat(topics) ==
    StableSort(topics, [t \in Range(topics) |-> <<0 - t.heat, 0>>])

\* sorted_topics[:limit]
FirstN(s, n) == SubSeq(s, 1, Min(n, Len(s)))

\* get_trending_topics_from_wechat(wechat_urls, limit); crawled are the urls
\* whose article extract_article_info returns without 'error'
GetTrendingTopicsFromWechat(wechat_urls, limit, crawled) ==
    LET cached_topics == LoadCache(cache_file, cache_now)
        fetched == SelectSeq(wechat_urls, LAMBDA u : u \in crawled)
        all_topics == [i \in DOMAIN fetched |-> ArticleTopic(fetched[i])]
        sorted_topics == SortedByHeat(DeduplicateTopics(all_topics))
        call == [NoCacheCall EXCEPT
                    !.op = "get_trending_topics_from_wechat", !.at = cache_now,
                    !.timestamp = cache_file.timestamp,
                    !.bad_record = HasBadRecord(cache_file),
                    !.saved = cache_saved, !.urls = wechat_urls, !.limit = limit]
    IN  IF cached_topics.hit /\ cached_topics.topics # <<>>
        THEN /\ cache_call' = [call EXCEPT !.from_cache = TRUE,
                                           !.result = [hit |-> TRUE,
                                               topics |-> FirstN(cached_topics.topics, limit)]]
             /\ UNCHANGED <<cache_file, cache_saved>>
        ELSE /\ SaveCache(sorted_topics, wechat_urls)
             /\ cache_call' = [call EXCEPT !.result = [hit |-> FALSE,
                                               topics |-> FirstN(sorted_topics, limit)]]

CallGetTrendingTopicsFromWechat ==
    /\ \E wechat_urls \in UrlLists, limit \in 1..MaxLimit :
            \E crawled \in SUBSET Range(wechat_urls) :
                GetTrendingTopicsFromWechat(wechat_urls, limit, crawled)
    /\ UNCHANGED cache_now

\* the hours at which calls are made: a file written at hour 0 is
\* cache_duration old at the second and older at the third
CacheHours == {0, cache_duration, cache_duration + 1}

\* time passes between two calls
HoursPass ==
    /\ \E hour \in CacheHours : hour > cache_now /\ cache_now' = hour
    /\ UNCHANGED <<cache_file, cache_call, cache_saved>>

(***************************************************************************)
(* VideoContentExtractor.batch_extract_videos.                             *)
(***************************************************************************)
\* tasks = [extract_with_semaphore(url) for url in video_urls]: one per url
Tasks == 1..video_count

\* Semaphore.acquire() returns without waiting
CanAcquireAlways(value) == TRUE
CanAcquire(value) == value > 0

\* the extract_youtube_content calls that have been awaited and have not ended
InFlight == {t \in Tasks : task_pc[t] = "extracting"}

\* batch_extract_videos(video_urls) up to asyncio.gather(*tasks): the
\* semaphore is created and every task is scheduled
BatchExtractVideos ==
    /\ batch_pc = "idle"
    /\ \E n \in 0..MaxVideos :
        /\ video_count' = n
        /\ task_pc' = [t \in 1..n |-> "scheduled"]
    /\ semaphore' = semaphore_limit
    /\ max_in_flight' = 0
    /\ batch_pc' = "gather"

\* extract_with_semaphore(url): async with semaphore is entered, and
\* self.extract_youtube_content(url) awaited
Acquire(t) ==
    /\ batch_pc = "gather"
    /\ task_pc[t] = "scheduled"
    /\ CanAcquire(semaphore)
    /\ semaphore' = semaphore - 1
    /\ task_pc' = [task_pc EXCEPT ![t] = "extracting"]
    /\ max_in_flight' = Max(max_in_flight, Cardinality(InFlight) + 1)
    /\ UNCHANGED <<batch_pc, video_count>>

\* extract_youtube_content returns a transcript, or raises and None is
\* returned; the semaphore is released on the way out of async with
Release(t) ==
    /\ batch_pc = "gather"
    /\ task_pc[t] = "extracting"
    /\ semaphore' = semaphore + 1
    /\ \/ task_pc' = [task_pc EXCEPT ![t] = "transcript"]
       \/ task_pc' = [task_pc EXCEPT ![t] = "none"]
    /\ UNCHANGED <<batch_pc, video_count, max_in_flight>>

\* asyncio.gather has every result: the transcripts are filtered and returned
BatchReturn ==
    /\ batch_pc = "gather"
    /\ \A t \in Tasks : task_pc[t] \in {"transcript", "none"}
    /\ batch_pc' = "returned"
    /\ UNCHANGED <<video_count, task_pc, semaphore, max_in_flight>>

(***************************************************************************)
(* RPAContentAnalyzer: content gaps and influencers.                       *)
(***************************************************************************)
\* all_platforms of identify_content_gaps
all_platforms == {"google", "youtube", "reddit", "twitter"}

\* the platform sets of the topics identify_content_gaps is called on, and the
\* confidence_score (in thousandths) of a topic of each
GapPlatformSets == {{"google", "youtube"}, {"google", "youtube", "reddit"}, all_platforms}
GapConfidence(topic_platforms) == 600 + 100 * Cardinality(topic_platforms)

\* the i-th topic of a list passed to identify_content_gaps
GapTopic(i, topic_platforms) ==
    [topic |-> ToString(i),
     platforms |-> topic_platforms,
     confidence_score |-> GapConfidence(topic_platforms),
     content_samples |-> <<GoogleItem(1, TRUE, FALSE)>>]

\* the lists of topics identify_content_gaps is called on
GapInputs ==
    {[i \in DOMAIN f |-> GapTopic(i, f[i])] : f \in ListsOver(GapPlatformSets, MaxGapTopics)}

\* _suggest_content_types_for_platforms, as a set: list(set(suggestions))
SuggestContentTypes(missing) ==
    (IF "youtube" \in missing THEN {"tutorial_video", "review_video", "case_study"} ELSE {})
        \cup (IF "reddit" \in missing THEN {"discussion_post", "ama", "guide"} ELSE {})
        \cup (IF "twitter" \in missing THEN {"thread", "quick_tip", "news_update"} ELSE {})
        \cup (IF "google" \in missing
              THEN {"blog_post", "how_to_guide", "resource_list"} ELSE {})

\* the ContentGap of a topic that lacks platforms: opportunity_score is
\* topic.confidence_score * 0.8, in units of 1/10000
PlatformCoverageGap(topic) ==
    LET missing_platforms == all_platforms \ topic.platforms
    IN  [gap_type |-> "platform_coverage",
         topic |-> topic.topic,
         opportunity_score |-> topic.confidence_score * 8,
         target_platforms |-> missing_platforms,
         suggested_content_types |-> SuggestContentTypes(missing_platforms)]

\* the ContentGap appended when videos are few among the content samples
ContentTypeGap ==
    [gap_type |-> "content_type",
     topic |-> "",
     opportunity_score |-> 7000,
     target_platforms |-> {"youtube"},
     suggested_content_types |-> {"tutorial_video", "case_study_video", "review_video"}]

\* content_type_distribution[kind] over the content samples of all topics
RECURSIVE ContentTypeCount(_, _)
ContentTypeCount(topics, video) ==
    IF topics = <<>> THEN 0
    ELSE Cardinality({i \in DOMAIN topics[1].content_samples :
                        ("video" \in DOMAIN topics[1].content_samples[i].engagement_metrics)
                            = video})
            + ContentTypeCount(Tail(topics), video)

\* identify_content_gaps(trending_topics)
IdentifyContentGaps(trending_topics) ==
    LET top == FirstN(trending_topics, gap_topics)
        lacking == SelectSeq(top, LAMBDA t : all_platforms \ t.platforms # {})
        coverage == [i \in DOMAIN lacking |-> PlatformCoverageGap(lacking[i])]
        gaps == IF 10 * ContentTypeCount(trending_topics, TRUE)
                        < 3 * ContentTypeCount(trending_topics, FALSE)
                THEN Append(coverage, ContentTypeGap)
                ELSE coverage
    IN  FirstN(gaps, gaps_returned)

\* a call of identify_content_gaps on the topics drawn
CallIdentifyContentGaps ==
    /\ ~gap_call.returned
    /\ gap_call' = [gap_call EXCEPT !.returned = TRUE,
                                    !.gaps = IdentifyContentGaps(gap_call.trending_topics)]
    /\ UNCHANGED follower_call

\* _estimate_follower_count(avg_engagement), avg_engagement a whole number
EstimateFollowerCount(avg_engagement) ==
    IF avg_engagement < 10 THEN avg_engagement * 100
    ELSE IF avg_engagement < 100 THEN avg_engagement * 50
    ELSE IF avg_engagement < 1000 THEN avg_engagement * 20
    ELSE avg_engagement * 10

\* the mean engagements _estimate_follower_count is called on: the limits of
\* the four bands and their neighbours
MeanEngagements == {0, 1, 9, 10, 11, 50, 99, 100, 101, 500, 999, 1000, 1001}

\* two calls of _estimate_follower_count, on a and on b
CallEstimateFollowerCount ==
    /\ ~follower_call.returned
    /\ follower_call' =
            [follower_call EXCEPT
                !.returned = TRUE,
                !.estimate_a = EstimateFollowerCount(follower_call.a),
                !.estimate_b = EstimateFollowerCount(follower_call.b)]
    /\ UNCHANGED gap_call

(***************************************************************************)
(* RPAAntiDetection.simulate_human_behavior_playwright / _selenium.        *)
(***************************************************************************)
\* the waits a call may sleep, in milliseconds: after the scroll
\* (random.randint(500, 1500)), after the pointer move (random.randint(100,
\* 500)), and the pause between min_request_delay and max_request_delay
ScrollWaits == {500, 1000, 1500}
MoveWaits == {100, 300, 500}
RequestDelays == {1000 * min_request_delay, 5000, 1000 * max_request_delay}

NoWaits == [scroll |-> 0, move |-> 0, pause |-> 0]

\* simulate_human_behavior_playwright(page) or _selenium(driver) is called
SimulateHumanBehavior ==
    /\ sim_pc = "idle"
    /\ sim_kind' \in {"playwright", "selenium"}
    /\ sim_pc' = "scroll"
    /\ sim_slept' = NoWaits
    /\ sim_failed' = FALSE

\* if random.random() < scroll_probability: the scroll and the wait after
\* it; the script may raise, and except Exception logs a warning
RandomScroll ==
    /\ sim_pc = "scroll"
    /\ \/ /\ sim_pc' = "move"
          /\ UNCHANGED <<sim_slept, sim_failed>>
       \/ /\ \E wait \in ScrollWaits : sim_slept' = [sim_slept EXCEPT !.scroll = wait]
          /\ sim_pc' = "move"
          /\ UNCHANGED sim_failed
       \/ /\ sim_pc' = "returned"
          /\ sim_failed' = TRUE
          /\ UNCHANGED sim_slept
    /\ UNCHANGED sim_kind

\* if random.random() < mouse_movement_probability: the pointer move and the
\* wait after it; the move may raise (page.viewport_size is None, the offset
\* is out of bounds), and except Exception logs a warning
RandomMouseMove ==
    /\ sim_pc = "move"
    /\ \/ /\ sim_pc' = "pause"
          /\ UNCHANGED <<sim_slept, sim_failed>>
       \/ /\ \E wait \in MoveWaits : sim_slept' = [sim_slept EXCEPT !.move = wait]
          /\ sim_pc' = "pause"
          /\ UNCHANGED sim_failed
       \/ /\ sim_pc' = "returned"
          /\ sim_failed' = TRUE
          /\ UNCHANGED sim_slept
    /\ UNCHANGED sim_kind

\* the pause: page.wait_for_timeout(random.randint(min * 1000, max * 1000)),
\* or time.sleep(random.uniform(min, max)); then the call returns
RandomPause ==
    /\ sim_pc = "pause"
    /\ \E delay \in RequestDelays : sim_slept' = [sim_slept EXCEPT !.pause = delay]
    /\ sim_pc' = "returned"
    /\ UNCHANGED <<sim_kind, sim_failed>>

(***************************************************************************)
(* search_google_rpa: the search box.                                      *)
(***************************************************************************)
\* search_selectors = ['textarea[name="q"]', 'input[name="q"]', '#APjFqb']
search_selectors == <<"textarea[name=q]", "input[name=q]", "#APjFqb">>

\* the first selector of search_selectors that the page has an element for
RECURSIVE FirstLocated(_, _)
FirstLocated(selectors, present) ==
    IF selectors = <<>> THEN None
    ELSE IF selectors[1] \in present THEN selectors[1]
    ELSE FirstLocated(Tail(selectors), present)

\* the selector type_like_human_playwright is given
TypedSelector == search_selectors[1]

\* search_google_rpa has gone to the page: which of the selectors have an
\* element on it, and how long the boosted query is
OpenGoogle ==
    /\ box_pc = "idle"
    /\ page_selectors' \in SUBSET Range(search_selectors)
    /\ query_length' \in 1..MaxQueryLength
    /\ box_pc' = "locate"
    /\ search_box' = None
    /\ typed_into' = None
    /\ typed' = 0

\* the loop over search_selectors: wait_for_selector times out on a selector
\* without element; no selector with one raises "search box not found"
LocateSearchBox ==
    /\ box_pc = "locate"
    /\ search_box' = FirstLocated(search_selectors, page_selectors)
    /\ box_pc' = IF search_box' = None THEN "raised" ELSE "click"
    /\ UNCHANGED <<page_selectors, query_length, typed_into, typed>>

\* search_box.click(), the wait, search_box.fill(''): any of them may raise
ClickAndClear ==
    /\ box_pc = "click"
    /\ box_pc' \in {"type", "raised"}
    /\ UNCHANGED <<page_selectors, query_length, search_box, typed_into, typed>>

\* type_like_human_playwright(page, search_selectors[0], search_query):
\* element = page.query_selector(selector); without element nothing is typed
QuerySelector ==
    /\ box_pc = "type"
    /\ IF TypedSelector \in page_selectors
       THEN /\ typed_into' = TypedSelector
            /\ box_pc' \in {"typing", "raised"}
       ELSE /\ typed_into' = None
            /\ box_pc' = "enter"
    /\ UNCHANGED <<page_selectors, query_length, search_box, typed>>

\* for char in text: element.type(char) and a wait; either may raise
TypeChar ==
    /\ box_pc = "typing"
    /\ \/ /\ typed < query_length
          /\ typed' = typed + 1
          /\ box_pc' = "typing"
       \/ /\ typed < query_length
          /\ box_pc' = "raised"
          /\ UNCHANGED typed
       \/ /\ typed = query_length
          /\ box_pc' = "enter"
          /\ UNCHANGED typed
    /\ UNCHANGED <<page_selectors, query_length, search_box, typed_into>>

\* page.keyboard.press('Enter')
PressEnter ==
    /\ box_pc = "enter"
    /\ box_pc' \in {"submitted", "raised"}
    /\ UNCHANGED <<page_selectors, query_length, search_box, typed_into, typed>>

(***************************************************************************)
(* Specifications.                                                         *)
(***************************************************************************)
\* RPAAntiDetection.__init__, up to the shuffle of the fingerprint pool
InitAntiDetection ==
    /\ proxy_pool = InitialProxyPool
    /\ success_count = [p \in Proxies |-> 0]
    /\ failure_count = [p \in Proxies |-> 0]
    /\ last_used = [p \in Proxies |-> 0]
    /\ response_time = [p \in Proxies |-> 0]
    /\ is_active = [p \in Proxies |-> TRUE]
    /\ current_proxy_index = 0
    /\ current_fingerprint_index = 0
    /\ last_call = [op |-> "init", who |-> None, arg |-> 0, reset |-> FALSE]
    /\ fp_returned = <<>>
    /\ calls = 0

\* one outcome of random.shuffle(self.fingerprint_pool)
InitShuffled ==
    fingerprint_pool = <<"mac_chrome", "win_firefox", "win_chrome", "linux_chrome">>

\* a crawler on which search_all_platforms_rpa has not been called yet
InitCrawler ==
    /\ pc = "idle"
    /\ platform_index = 1
    /\ all_content = <<>>
    /\ driver = [p \in Platforms |-> "idle"]
    /\ subreddit_index = 1
    /\ results = [p \in Platforms |-> <<>>]
    /\ slept = [p \in Platforms |-> 0]
    /\ logged = "none"

\* rpa_analyzer = RPAContentAnalyzer(): a crawler with self.browser = None and
\* self.context = None, and no invocation under way
InitSession ==
    /\ inv_pc = [i \in Invocations |-> "idle"]
    /\ inv_query = [i \in Invocations |-> 1]
    /\ inv_platform = [i \in Invocations |-> 1]
    /\ inv_cancelled = [i \in Invocations |-> FALSE]
    /\ crawler_browser = None
    /\ crawler_context = None
    /\ launched = {}
    /\ closed_by = [i \in Invocations |-> None]
    /\ page_on = [i \in Invocations |-> None]
    /\ used = {}

\* no analysis has been run and no score function called
InitNoRun ==
    /\ clock = SetMin(RunDays)
    /\ analysis = NoRun
    /\ previous = NoRun
    /\ score_call = NoCall

\* no content has been collected
InitScoring == content_items = <<>> /\ InitNoRun

\* intelligent_service = IntelligentTopicService(), with no cache file
InitCache ==
    /\ cache_file = NoFile
    /\ cache_now = 0
    /\ cache_call = NoCacheCall
    /\ cache_saved = NothingSaved

\* batch_extract_videos has not been called
InitBatch ==
    /\ batch_pc = "idle"
    /\ video_count = 0
    /\ task_pc = <<>>
    /\ semaphore = semaphore_limit
    /\ max_in_flight = 0

\* neither identify_content_gaps nor _estimate_follower_count has been called
NoGapCall == [trending_topics |-> <<>>, returned |-> FALSE, gaps |-> <<>>]
NoFollowerCall == [a |-> 0, b |-> 0, returned |-> FALSE, estimate_a |-> 0, estimate_b |-> 0]
InitInsight == gap_call = NoGapCall /\ follower_call = NoFollowerCall

\* the behaviour simulator has not been called
InitSimulator ==
    /\ sim_pc = "idle"
    /\ sim_kind = "playwright"
    /\ sim_slept = NoWaits
    /\ sim_failed = FALSE

\* search_google_rpa has not opened a page
InitSearchBox ==
    /\ box_pc = "idle"
    /\ page_selectors = {}
    /\ query_length = 1
    /\ search_box = None
    /\ typed_into = None
    /\ typed = 0

\* the services besides the RPA engine, as constructed, and the parts of the
\* engine that are followed step by step in specifications of their own
InitServices == InitCache /\ InitBatch /\ InitInsight /\ InitSimulator /\ InitSearchBox

\* The proxy pool. No proxy operation reads the fingerprint pool, so one outcome
\* of the shuffle stands for all of them here.
Init ==
    InitAntiDetection /\ InitShuffled /\ InitCrawler /\ InitSession /\ InitScoring /\ InitServices

CallMarkProxySuccess == \E p \in Proxies, latency \in Latencies : MarkProxySuccess(p, latency)

CallMarkProxyFailure == \E p \in Proxies : MarkProxyFailure(p)

Next ==
    \/ GetNextProxy /\ UNCHANGED calls /\ UNCHANGED <<crawlVars, sessionVars, scoringVars, serviceVars>>
    \/ CallMarkProxySuccess /\ UNCHANGED calls /\ UNCHANGED <<crawlVars, sessionVars, scoringVars, serviceVars>>
    \/ CallMarkProxyFailure /\ UNCHANGED calls /\ UNCHANGED <<crawlVars, sessionVars, scoringVars, serviceVars>>

Spec == Init /\ [][Next]_vars

\* Proxy and fingerprint rotation together, for every outcome of the shuffle,
\* over runs of at most MaxRotationCalls calls.
InitRotation ==
    /\ InitAntiDetection
    /\ fingerprint_pool \in PermutationsOf(Fingerprints)
    /\ InitCrawler
    /\ InitSession
    /\ InitScoring
    /\ InitServices

Counted ==
    calls < MaxRotationCalls /\ calls' = calls + 1 /\ UNCHANGED <<crawlVars, sessionVars, scoringVars, serviceVars>>

NextRotation ==
    \/ Counted /\ GetNextFingerprint
    \/ Counted /\ GetNextProxy
    \/ Counted /\ CallMarkProxySuccess
    \/ Counted /\ CallMarkProxyFailure

SpecRotation == InitRotation /\ [][NextRotation]_vars

\* One call of search_all_platforms_rpa and the drivers it runs.
NextCrawl ==
    \/ SearchAllPlatformsRpa /\ UNCHANGED <<antiDetectionVars, sessionVars, scoringVars, serviceVars>>
    \/ StartDriver /\ UNCHANGED <<antiDetectionVars, sessionVars, scoringVars, serviceVars>>
    \/ (\E p \in Platforms : NewPage(p)) /\ UNCHANGED <<antiDetectionVars, sessionVars, scoringVars, serviceVars>>
    \/ GoogleTry /\ UNCHANGED <<antiDetectionVars, sessionVars, scoringVars, serviceVars>>
    \/ GoogleClose /\ UNCHANGED <<antiDetectionVars, sessionVars, scoringVars, serviceVars>>
    \/ RedditTry /\ UNCHANGED <<antiDetectionVars, sessionVars, scoringVars, serviceVars>>
    \/ RedditClose /\ UNCHANGED <<antiDetectionVars, sessionVars, scoringVars, serviceVars>>
    \/ DriverReturned /\ UNCHANGED <<antiDetectionVars, sessionVars, scoringVars, serviceVars>>
    \/ Sleep /\ UNCHANGED <<antiDetectionVars, sessionVars, scoringVars, serviceVars>>
    \/ DriverRaised /\ UNCHANGED <<antiDetectionVars, sessionVars, scoringVars, serviceVars>>
    \/ Return /\ UNCHANGED <<antiDetectionVars, sessionVars, scoringVars, serviceVars>>

SpecCrawl == Init /\ [][NextCrawl]_vars

\* The invocations of analyze_market_trends_rpa on the one rpa_analyzer, up to
\* the end of their async with block.
NextSession ==
    \/ (\E i \in Invocations : AEnter(i)) /\ UNCHANGED <<calls, crawlVars, scoringVars, serviceVars>>
    \/ (\E i \in Invocations : Launch(i)) /\ UNCHANGED <<antiDetectionVars, crawlVars, scoringVars, serviceVars>>
    \/ (\E i \in Invocations : NewContext(i)) /\ UNCHANGED <<antiDetectionVars, crawlVars, scoringVars, serviceVars>>
    \/ (\E i \in Invocations : OpenPage(i)) /\ UNCHANGED <<antiDetectionVars, crawlVars, scoringVars, serviceVars>>
    \/ (\E i \in Invocations : Navigate(i)) /\ UNCHANGED <<antiDetectionVars, crawlVars, scoringVars, serviceVars>>
    \/ (\E i \in Invocations : NextQuery(i)) /\ UNCHANGED <<antiDetectionVars, crawlVars, scoringVars, serviceVars>>
    \/ (\E i \in Invocations : CleanupBrowser(i))
            /\ UNCHANGED <<antiDetectionVars, crawlVars, scoringVars, serviceVars>>

SpecSession == Init /\ [][NextSession]_vars

\* Runs of the two analyzers on one list of records, on one day or on two.
InitAnalysis ==
    /\ InitAntiDetection /\ InitShuffled /\ InitCrawler /\ InitSession
    /\ content_items \in ContentInputs
    /\ InitNoRun
    /\ InitServices

NextAnalysis ==
    \/ AnalyzeMarketTrends /\ UNCHANGED <<antiDetectionVars, crawlVars, sessionVars, serviceVars>>
    \/ AnalyzeMarketTrendsRpa /\ UNCHANGED <<antiDetectionVars, crawlVars, sessionVars, serviceVars>>
    \/ Tick /\ UNCHANGED <<antiDetectionVars, crawlVars, sessionVars, serviceVars>>

SpecAnalysis == InitAnalysis /\ [][NextAnalysis]_vars

\* Direct calls of the score functions, one call on each tuple of arguments.
InitScore ==
    /\ InitAntiDetection /\ InitShuffled /\ InitCrawler /\ InitSession /\ InitServices
    /\ content_items = <<>>
    /\ clock = SetMin(RunDays)
    /\ analysis = NoRun
    /\ previous = NoRun
    /\ score_call \in
            {[function |-> "_calculate_prediction_score", args |-> a, result |-> Pending] :
                a \in PredictionScoreInputs}
            \cup
            {[function |-> "_calculate_enhanced_confidence", args |-> a, result |-> Pending] :
                a \in EnhancedConfidenceInputs}

NextScore ==
    \/ CallCalculatePredictionScore
            /\ UNCHANGED <<antiDetectionVars, crawlVars, sessionVars, serviceVars>>
    \/ CallCalculateEnhancedConfidence
            /\ UNCHANGED <<antiDetectionVars, crawlVars, sessionVars, serviceVars>>

SpecScore == InitScore /\ [][NextScore]_vars

\* The topic cache of IntelligentTopicService, over whatever file is at
\* self.cache_file when the service starts.
InitCacheFile ==
    /\ InitAntiDetection /\ InitShuffled /\ InitCrawler /\ InitSession /\ InitScoring
    /\ InitBatch /\ InitInsight /\ InitSimulator /\ InitSearchBox
    /\ cache_file \in ForeignFiles
    /\ cache_now = 0
    /\ cache_call = NoCacheCall
    /\ cache_saved = NothingSaved

NextCache ==
    \/ CallSaveCache /\ UNCHANGED <<engineVars, batchVars, insightVars, simVars, boxVars>>
    \/ CallLoadCache /\ UNCHANGED <<engineVars, batchVars, insightVars, simVars, boxVars>>
    \/ CallGetTrendingTopicsFromWechat
            /\ UNCHANGED <<engineVars, batchVars, insightVars, simVars, boxVars>>
    \/ HoursPass /\ UNCHANGED <<engineVars, batchVars, insightVars, simVars, boxVars>>

SpecCache == InitCacheFile /\ [][NextCache]_vars

\* One call of batch_extract_videos and the tasks it gathers.
NextBatch ==
    \/ BatchExtractVideos /\ UNCHANGED <<engineVars, cacheVars, insightVars, simVars, boxVars>>
    \/ (\E t \in Tasks : Acquire(t)) /\ UNCHANGED <<engineVars, cacheVars, insightVars, simVars, boxVars>>
    \/ (\E t \in Tasks : Release(t)) /\ UNCHANGED <<engineVars, cacheVars, insightVars, simVars, boxVars>>
    \/ BatchReturn /\ UNCHANGED <<engineVars, cacheVars, insightVars, simVars, boxVars>>

SpecBatch == Init /\ [][NextBatch]_vars

\* One call of identify_content_gaps on each list of topics.
InitGaps ==
    /\ InitAntiDetection /\ InitShuffled /\ InitCrawler /\ InitSession /\ InitScoring
    /\ InitCache /\ InitBatch /\ InitSimulator /\ InitSearchBox
    /\ gap_call \in {[NoGapCall EXCEPT !.trending_topics = t] : t \in GapInputs}
    /\ follower_call = NoFollowerCall

NextGaps == CallIdentifyContentGaps /\ UNCHANGED <<engineVars, cacheVars, batchVars, simVars, boxVars>>

SpecGaps == InitGaps /\ [][NextGaps]_vars

\* Calls of _estimate_follower_count on each pair a <= b of mean engagements.
InitFollowers ==
    /\ InitAntiDetection /\ InitShuffled /\ InitCrawler /\ InitSession /\ InitScoring
    /\ InitCache /\ InitBatch /\ InitSimulator /\ InitSearchBox
    /\ gap_call = NoGapCall
    /\ follower_call \in
            {[NoFollowerCall EXCEPT !.a = pair[1], !.b = pair[2]] :
                pair \in {ab \in MeanEngagements \X MeanEngagements : ab[1] <= ab[2]}}

NextFollowers == CallEstimateFollowerCount /\ UNCHANGED <<engineVars, cacheVars, batchVars, simVars, boxVars>>

SpecFollowers == InitFollowers /\ [][NextFollowers]_vars

\* One call of the behaviour simulator.
NextSimulator ==
    \/ SimulateHumanBehavior /\ UNCHANGED <<engineVars, cacheVars, batchVars, insightVars, boxVars>>
    \/ RandomScroll /\ UNCHANGED <<engineVars, cacheVars, batchVars, insightVars, boxVars>>
    \/ RandomMouseMove /\ UNCHANGED <<engineVars, cacheVars, batchVars, insightVars, boxVars>>
    \/ RandomPause /\ UNCHANGED <<engineVars, cacheVars, batchVars, insightVars, boxVars>>

SpecSimulator == Init /\ [][NextSimulator]_vars

\* The Google driver from the page of the search engine to the submitted query.
NextSearchBox ==
    \/ OpenGoogle /\ UNCHANGED <<engineVars, cacheVars, batchVars, insightVars, simVars>>
    \/ LocateSearchBox /\ UNCHANGED <<engineVars, cacheVars, batchVars, insightVars, simVars>>
    \/ ClickAndClear /\ UNCHANGED <<engineVars, cacheVars, batchVars, insightVars, simVars>>
    \/ QuerySelector /\ UNCHANGED <<engineVars, cacheVars, batchVars, insightVars, simVars>>
    \/ TypeChar /\ UNCHANGED <<engineVars, cacheVars, batchVars, insightVars, simVars>>
    \/ PressEnter /\ UNCHANGED <<engineVars, cacheVars, batchVars, insightVars, simVars>>

SpecSearchBox == Init /\ [][NextSearchBox]_vars

(***************************************************************************)
(* Claims about the identity pool.                                         *)
(***************************************************************************)
NoneActive == \A p \in Proxies : ~is_active[p]

\* C1: whenever get_next_proxy has just returned on the (non-empty) pool, the
\* value returned is not None, is a member of the pool, and is active.
C1_ReturnsActiveMember ==
    last_call.op = "get_next_proxy" =>
        /\ last_call.who # None
        /\ last_call.who \in Range(proxy_pool)
        /\ is_active[last_call.who]

\* C1 witness: get_next_proxy returned while another proxy of the pool was inactive.
C1_Witness ==
    /\ last_call.op = "get_next_proxy"
    /\ ~last_call.reset
    /\ \E p \in Proxies : ~is_active[p]

\* C2: in every reachable state a proxy whose failure_count is at or above
\* max_retries_per_proxy is inactive.
C2_ThresholdInactive ==
    \A p \in Proxies : failure_count[p] >= max_retries_per_proxy => ~is_active[p]

\* C2 witness: a proxy that only ever failed, exactly max_retries_per_proxy times.
C2_Witness ==
    \E p \in Proxies :
        /\ failure_count[p] = max_retries_per_proxy
        /\ success_count[p] = 0
        /\ last_call = [op |-> "mark_proxy_failure", who |-> p, arg |-> 0, reset |-> FALSE]

\* C3: a get_next_proxy step taken while no proxy is active leaves every proxy
\* active with failure_count 0.
C3_ResetRestoresAll ==
    [][(NoneActive /\ last_call'.op = "get_next_proxy") =>
            \A p \in Proxies : is_active'[p] /\ failure_count'[p] = 0]_vars

\* C3 witness: get_next_proxy has just run the pool-wide reset.
C3_Witness == last_call.op = "get_next_proxy" /\ last_call.reset

\* C4: a proxy goes from inactive to active only in a get_next_proxy step taken
\* while no proxy is active.
C4_OnlyResetReactivates ==
    [][\A p \in Proxies :
            (~is_active[p] /\ is_active'[p]) =>
                (NoneActive /\ last_call'.op = "get_next_proxy")]_vars

\* C4 witness: an inactive proxy has just been reported successful and another
\* inactive one failed before it; both are still inactive.
C4_Witness ==
    /\ last_call.op = "mark_proxy_success"
    /\ ~is_active[last_call.who]
    /\ failure_count[last_call.who] < max_retries_per_proxy
    /\ \E q \in Proxies : q # last_call.who /\ ~is_active[q] /\ success_count[q] > 0

C6_ReturnsLeastRecentlyUsed ==
    last_call.op = "get_next_proxy" =>
        \A q \in Proxies : is_active[q] => last_used[last_call.who] <= last_used[q]

\* C7: get_next_fingerprint steps change nothing of the proxy pool and advance
\* the fingerprint index by one; proxy steps leave the fingerprint index (and
\* pool) alone; any len(fingerprint_pool) consecutive get_next_fingerprint
\* calls return every fingerprint exactly once.
C7_RotationIndependent ==
    /\ [][last_call'.op = "get_next_fingerprint" =>
            /\ UNCHANGED poolVars
            /\ current_fingerprint_index' =
                    (current_fingerprint_index + 1) % Len(fingerprint_pool)]_vars
    /\ [][last_call'.op \in {"get_next_proxy", "mark_proxy_success", "mark_proxy_failure"} =>
            UNCHANGED <<fingerprint_pool, current_fingerprint_index>>]_vars
    /\ [](/\ \A i, j \in DOMAIN fp_returned : fp_returned[i] = fp_returned[j] => i = j
          /\ Len(fp_returned) = Len(fingerprint_pool) => Range(fp_returned) = Fingerprints)

\* C7 witness: a full round of fingerprints was handed out with a proxy failure
\* reported in between.
C7_Witness ==
    /\ Len(fp_returned) = Len(fingerprint_pool)
    /\ last_call.op = "get_next_fingerprint"
    /\ \E p \in Proxies : failure_count[p] > 0

\* C27: every call of the behaviour simulator sleeps a delay between
\* min_request_delay and max_request_delay before it returns, whether or not
\* the scroll and the pointer move are taken and whether or not they succeed
C27_AlwaysPaces ==
    sim_pc = "returned" =>
        sim_slept.pause \in (1000 * min_request_delay)..(1000 * max_request_delay)

(***************************************************************************)
(* Claims about the crawl orchestrator.                                    *)
(***************************************************************************)
InProgress == {p \in Platforms : driver[p] \in {"new_page", "try", "close"}}

\* C8: within one call the drivers run one at a time in list order: a platform's
\* driver has started only if the driver of every earlier platform has
\* finished, so at most one driver is in progress.
C8_OneDriverAtATime ==
    /\ Cardinality(InProgress) <= 1
    /\ \A i, j \in DOMAIN platforms :
          (i < j /\ driver[platforms[j]] # "idle") =>
              driver[platforms[i]] \in {"returned", "raised"}

\* C8 witness: the second platform's driver is scraping after the first returned.
C8_Witness ==
    /\ driver[platforms[2]] = "try"
    /\ driver[platforms[1]] = "returned"
    /\ results[platforms[1]] # <<>>

\* C9: whenever the driver of a platform other than the first has started, a
\* delay from the between_searches range was slept after the previous
\* platform's run, whether that run returned or raised.
C9_PacedBetweenPlatforms ==
    \A j \in DOMAIN platforms :
        (j > 1 /\ driver[platforms[j]] # "idle") =>
            slept[platforms[j - 1]] \in BetweenSearchesDelays

\* C10: the call never raises because a driver did, it gets to every platform,
\* and what it returns holds exactly the items of the drivers that returned.
C10_FailureContained ==
    /\ pc # "raised"
    /\ pc = "done" =>
          /\ \A p \in Platforms : driver[p] \in {"returned", "raised"}
          /\ Range(all_content) =
                UNION {Range(results[p]) : p \in {q \in Platforms : driver[q] = "returned"}}

\* C10 witness: the call returned items of one platform although the driver of
\* the other one raised.
C10_Witness ==
    /\ pc = "done"
    /\ all_content # <<>>
    /\ \E p, q \in Platforms : driver[p] = "raised" /\ driver[q] = "returned"

\* the platforms whose driver returned at least one item
Productive == {p \in Platforms : driver[p] = "returned" /\ results[p] # <<>>}

\* C11: a call of search_all_platforms_rpa in which every platform failed or
\* returned no item does not return normally (it raises EmptyBatchError): a
\* call that has returned had at least one platform with items.
C11_EmptyBatchRaises == pc = "done" => Productive # {}

\* C12: when the results page of google was a block or verification page, the
\* driver ends by raising to its caller, not by returning a list.
C12_BlockedPageFails ==
    (logged = "blocked" /\ driver["google"] \in {"returned", "raised"}) =>
        driver["google"] = "raised"

\* C25: every value of the engagement_metrics of every record a driver emits
\* or the orchestrator returns is a number
C25_MetricsAreNumbers ==
    \A r \in Range(all_content) \cup UNION {Range(results[p]) : p \in Platforms} :
        \A name \in DOMAIN r.engagement_metrics : r.engagement_metrics[name].type = "int"

\* C29: whichever selector located the search box, the complete boosted
\* query has been typed into that box when Enter is pressed
C29_QueryTypedBeforeEnter ==
    box_pc = "submitted" => (typed_into = search_box /\ typed = query_length)

(***************************************************************************)
(* Claims about the browser session.                                       *)
(***************************************************************************)
\* C13: within the calls of one invocation, a session serves the driver of one
\* platform only: two pages the invocation opened on the same session were
\* opened for the same platform.
C13_SessionPerPlatformRun ==
    \A u, v \in used :
        (u.by = v.by /\ u.session = v.session) => u.platform = v.platform

\* C14: an invocation that has left the async with block, on whatever path,
\* has left no browser it launched unclosed.
C14_NoLeakedBrowser ==
    \A i \in Invocations :
        (inv_pc[i] \in Terminal /\ i \in launched) => closed_by[i] # None

\* C15: with overlapping invocations, the crawler's session reference is the
\* session of every invocation inside its async with block, every page was
\* opened on the session of the invocation that opened it, and every browser
\* was closed by the invocation that launched it.
C15_OwnSessionOnly ==
    /\ \A i \in Invocations :
            inv_pc[i] \in {"loop", "page", "cleanup"} =>
                (crawler_browser = i /\ crawler_context = i)
    /\ \A u \in used : u.session = u.by
    /\ \A b \in launched : closed_by[b] \in {None, b}


(***************************************************************************)
(* Claims about topic extraction and scoring.                              *)
(***************************************************************************)
\* the names of the topics an analysis returned
Promoted == {analysis.topics[i].topic : i \in DOMAIN analysis.topics}

\* C16: a topic candidate is promoted to a trending topic if and only if its
\* records come from at least 2 distinct platforms and number at least 3
C16_PromotedIffValidated ==
    analysis.outcome = "returned" =>
        \A k \in DOMAIN analysis.candidates :
            k \in Promoted <=>
                /\ Cardinality(analysis.candidates[k].platforms) >= 2
                /\ analysis.candidates[k].records >= 3


\* C17: the growth rate of every topic lies in [-1, 5], and it is exactly 1
\* for a topic that has no record in the older part of its records
C17_GrowthRateClamped ==
    \A i \in DOMAIN analysis.topics :
        LET topic == analysis.topics[i]
        IN  /\ topic.growth_rate \in (0 - growth_rate_below_zero)..growth_rate_max
            /\ (/\ analysis.path = "advanced"
                /\ \A r \in Range(TopicsData(topic.topic, content_items)) :
                        r.time > analysis.at - recent_days)
                    => topic.growth_rate = 1000


\* C18: the score of a topic lies in [0, 100] (prediction_score, in
\* hundredths of a point), respectively in [0, 1] (confidence_score of the
\* RPA analyzer, in thousandths), whatever engagement, growth rate,
\* sentiment, platform count and record count it is computed from
C18_ScoreInRange ==
    score_call.result # Pending =>
        /\ score_call.function = "_calculate_prediction_score" =>
                score_call.result \in 0..10000
        /\ score_call.function = "_calculate_enhanced_confidence" =>
                score_call.result \in 0..1000

\* a prediction score computed from an engagement, a platform count and a
\* record count that are all above their caps
C18_Witness ==
    /\ score_call.function = "_calculate_prediction_score"
    /\ score_call.result = 10000
    /\ score_call.args[1] > 10 * engagement_cap
    /\ score_call.args[4] > platform_cap
    /\ score_call.args[5] > content_cap


\* C19: the topics an analysis returns are in descending order of score: of
\* two adjacent topics, the earlier one's score is at least the later one's
C19_SortedByScore ==
    \A i \in DOMAIN analysis.topics :
        i + 1 \in DOMAIN analysis.topics =>
            ScoreOf(analysis.topics[i]) >= ScoreOf(analysis.topics[i + 1])

\* an analysis returned two topics of different scores, the topic created
\* first from the records coming second
C19_Witness ==
    /\ analysis.path = "advanced"
    /\ Len(analysis.topics) = 2
    /\ ScoreOf(analysis.topics[1]) > ScoreOf(analysis.topics[2])
    /\ analysis.topics[2].topic = TopicsDataKeys(content_items)[1]


\* C20: two runs of the same analyzer on the same unchanged records give the
\* same topics in the same order with the same scores, whenever they are run
C20_RunsAgree ==
    (analysis.path = previous.path /\ analysis.path # "none") =>
        /\ analysis.outcome = previous.outcome
        /\ analysis.topics = previous.topics


\* C23: an error raised while one topic is computed is caught and that topic
\* alone is dropped: every analysis returns, it never raises
C23_TopicErrorContained == analysis.path # "none" => analysis.outcome = "returned"

(***************************************************************************)
(* Claims about batch_extract_videos.                                      *)
(***************************************************************************)
\* C24: during batch_extract_videos at most 3 extract_youtube_content calls
\* are in flight at the same time, for any number of urls and any interleaving
C24_AtMostThreeInFlight ==
    /\ Cardinality(InFlight) <= semaphore_limit
    /\ max_in_flight <= semaphore_limit

\* three extractions are in flight and a fourth task waits for the semaphore
C24_Witness ==
    /\ Cardinality(InFlight) = semaphore_limit
    /\ \E t \in Tasks : task_pc[t] = "scheduled"

(***************************************************************************)
(* Claims about content gaps and influencers.                              *)
(***************************************************************************)
\* C26: for each of the top topics, identify_content_gaps emits one
\* platform-coverage gap per platform the topic lacks, each with an
\* opportunity_score of 0.8 times the topic's confidence_score
C26_GapPerMissingPlatform ==
    gap_call.returned =>
        \A i \in DOMAIN FirstN(gap_call.trending_topics, gap_topics) :
            LET topic == gap_call.trending_topics[i]
            IN  \A platform \in all_platforms \ topic.platforms :
                    \E j \in DOMAIN gap_call.gaps :
                        /\ gap_call.gaps[j].gap_type = "platform_coverage"
                        /\ gap_call.gaps[j].topic = topic.topic
                        /\ gap_call.gaps[j].target_platforms = {platform}
                        /\ gap_call.gaps[j].opportunity_score = topic.confidence_score * 8

\* C28: the follower estimate is non-decreasing in the mean engagement, also
\* across the limits 10, 100 and 1000 of the bands
C28_FollowerEstimateMonotonic ==
    (follower_call.returned /\ follower_call.a <= follower_call.b) =>
        follower_call.estimate_a <= follower_call.estimate_b

C22_BadRecordIsMiss ==
    (cache_call.op \in {"_load_cache", "get_trending_topics_from_wechat"}
            /\ cache_call.bad_record) =>
        /\ ~cache_call.from_cache
        /\ cache_call.op = "_load_cache" => cache_call.result.topics = <<>>


\* C30: the topics get_trending_topics_from_wechat(urls, limit) returns are
\* derived from the urls passed to that call only, also when an earlier call
\* with other urls has populated the cache
C30_TopicsOfOwnUrls ==
    (/\ cache_call.op = "get_trending_topics_from_wechat"
     /\ cache_call.saved.valid
     /\ cache_call.saved.urls # <<>>) =>
        \A i \in DOMAIN cache_call.result.topics :
            cache_call.result.topics[i].source_url \in Range(cache_call.urls)

=============================================================================
